---- MODULE Spec2Model ----
(***************************************************************************)
(* FormAgent: the form-field interpreter (server/ai/interpreter.py), the   *)
(* user-profile model and storage (server/models/user_data.py,             *)
(* server/services/data_service.py, server/database/db_manager.py), the    *)
(* HTTP routes (server/api/routes.py), the browser driver                  *)
(* (src/browsers/safari_auto_filler.py, browser_auto_filler.py) and the    *)
(* launcher (formfiller.py), and the Firefox signing switch                *)
(* (disable_firefox_signing.py).                                           *)
(*                                                                         *)
(* A Python str is a sequence of one-character strings, so that regular-   *)
(* expression search, strip(), lower() and len() are computed on the text. *)
(* A Python value is a record [t, s]: t = "str" with its characters s,     *)
(* t = "none" for None, t = "absent" for a key that a dict does not hold.  *)
(* A confidence is an integer number of hundredths (0.9 is 90); a mean is  *)
(* the exact fraction [num, den] of hundredths.                            *)
(***************************************************************************)
EXTENDS Integers, Sequences, FiniteSets, TLC

VARIABLES
    rag_enabled,   \* FormInterpreter.rag_enabled
    qa,            \* FormInterpreter.qa is not None
    call,          \* the interpreter call that just returned: operation, argument, RAG traffic, result
    user_table,    \* table user_data: the set of its rows (id, data as JSON text)
    user_data,     \* a UserData instance (models/user_data.py), or the idle record
    reply,         \* the data-layer call or HTTP request that just returned: operation, argument, result
    form_mappings, \* table form_mappings: its rows, in insertion order
    saved,         \* history: user id -> the dictionary of the last successful save_user_data
    running,       \* SafariAutoFiller.running / BrowserAutoFiller.running
    filled_inputs, \* the driver's set filled_inputs (element ids)
    fill_hidden_inputs, \* the driver's attribute fill_hidden_inputs
    pc,            \* where the driver is: "new", "loop" (in start), "returned" (start returned)
    quit_calls,    \* history: number of calls of driver.quit()
    slept,         \* history: time.sleep(scan_interval) has returned since the page was last read
    failed,        \* history: the elements whose fill was attempted and did not return True
    event,         \* history: what the last step of the driver did
    argv,          \* sys.argv[1:] of the launcher (formfiller.py)
    command,       \* the commands handed to subprocess.run, in order
    main_state,    \* the launcher's main(): "new", "returned", or "exit" (argparse ended the process)
    prefs_js,      \* the text of prefs.js in the Firefox profile, or the record of a missing file
    user_js,       \* the text of user.js in the Firefox profile, or the record of a missing file
    profile_calls  \* history: the calls of modify_signature_requirement, each with the files it found

storeVars == <<form_mappings, saved>>

driverVars ==
    <<running, filled_inputs, fill_hidden_inputs, pc, quit_calls, slept, failed, event>>

serverVars == <<rag_enabled, qa, call, user_table, user_data, reply>>

launchVars == <<argv, command, main_state>>

profileVars == <<prefs_js, user_js, profile_calls>>

vars ==
    <<rag_enabled, qa, call, user_table, user_data, reply, form_mappings, saved,
      running, filled_inputs, fill_hidden_inputs, pc, quit_calls, slept, failed, event,
      argv, command, main_state, prefs_js, user_js, profile_calls>>

\* ------------------------------------------------------------------ bounds

\* Longest list of fields in a form handed to interpret_form / enhance_with_ai.
MaxFields == 3

\* ------------------------------------------------------------ Python values

Str(s) == [t |-> "str", s |-> s]

None == [t |-> "none", s |-> <<>>]

Absent == [t |-> "absent", s |-> <<>>]

\* dict.get(key, default), given the value v held under key (Absent when the key is missing)
Get(v, default) == IF v.t = "absent" THEN default ELSE v

\* bool(v) of a str or None
Truthy(v) == v.t = "str" /\ v.s # <<>>

\* a or b
Or(a, b) == IF Truthy(a) THEN a ELSE b

\* f"{v}"
Fmt(v) == IF v.t = "none" THEN <<"N","o","n","e">> ELSE v.s

ToLower ==
    ("A" :> "a") @@ ("B" :> "b") @@ ("C" :> "c") @@ ("D" :> "d") @@ ("E" :> "e") @@
    ("F" :> "f") @@ ("G" :> "g") @@ ("H" :> "h") @@ ("I" :> "i") @@ ("J" :> "j") @@
    ("K" :> "k") @@ ("L" :> "l") @@ ("M" :> "m") @@ ("N" :> "n") @@ ("O" :> "o") @@
    ("P" :> "p") @@ ("Q" :> "q") @@ ("R" :> "r") @@ ("S" :> "s") @@ ("T" :> "t") @@
    ("U" :> "u") @@ ("V" :> "v") @@ ("W" :> "w") @@ ("X" :> "x") @@ ("Y" :> "y") @@
    ("Z" :> "z")

\* str.lower()
Lower(s) == [i \in 1..Len(s) |-> IF s[i] \in DOMAIN ToLower THEN ToLower[s[i]] ELSE s[i]]

Whitespace == {" ", "\n", "\t", "\r"}

\* str.strip()
Strip(s) ==
    LET keep == {i \in 1..Len(s) : s[i] \notin Whitespace}
    IN  IF keep = {} THEN <<>>
        ELSE LET lo == CHOOSE i \in keep : \A j \in keep : i <= j
                 hi == CHOOSE i \in keep : \A j \in keep : j <= i
             IN  SubSeq(s, lo, hi)

\* ------------------------------------------------------- regular expressions

\* A compiled pattern is the set of the literal texts its alternation matches;
\* a[-_]?b matches ab, a-b and a_b.
Sep(a, b) == {a \o b, a \o <<"-">> \o b, a \o <<"_">> \o b}

Contains(text, lit) ==
    \E i \in 1..(Len(text) - Len(lit) + 1) : SubSeq(text, i, i + Len(lit) - 1) = lit

\* pattern.search(text) is not None, the pattern compiled with re.I
Search(pattern, text) ==
    LET low == Lower(text) IN \E lit \in pattern : Contains(low, lit)

EMAIL_PATTERN == {<<"e","m","a","i","l">>} \cup Sep(<<"e">>, <<"m","a","i","l">>) \cup {<<"m","a","i","l">>}

PHONE_PATTERN == {<<"p","h","o","n","e">>, <<"t","e","l","e","p","h","o","n","e">>, <<"m","o","b","i","l","e">>, <<"c","e","l","l">>, <<"t","e","l">>}

NAME_PATTERN == {<<"n","a","m","e">>} \cup Sep(<<"f","u","l","l">>, <<"n","a","m","e">>)

FIRST_NAME_PATTERN == Sep(<<"f","i","r","s","t">>, <<"n","a","m","e">>) \cup Sep(<<"g","i","v","e","n">>, <<"n","a","m","e">>) \cup {<<"f","n","a","m","e">>}

LAST_NAME_PATTERN ==
    Sep(<<"l","a","s","t">>, <<"n","a","m","e">>) \cup {<<"s","u","r","n","a","m","e">>} \cup Sep(<<"f","a","m","i","l","y">>, <<"n","a","m","e">>) \cup {<<"l","n","a","m","e">>}

ADDRESS_PATTERN == {<<"a","d","d","r","e","s","s">>, <<"s","t","r","e","e","t">>, <<"a","d","d","r">>}

CITY_PATTERN == {<<"c","i","t","y">>, <<"t","o","w","n">>, <<"l","o","c","a","l","i","t","y">>}

STATE_PATTERN == {<<"s","t","a","t","e">>, <<"p","r","o","v","i","n","c","e">>, <<"r","e","g","i","o","n">>, <<"c","o","u","n","t","y">>}

ZIP_PATTERN == {<<"z","i","p">>, <<"p","o","s","t","a","l">>} \cup Sep(<<"p","o","s","t">>, <<"c","o","d","e">>)

COUNTRY_PATTERN == {<<"c","o","u","n","t","r","y">>, <<"n","a","t","i","o","n">>}

\* ------------------------------------------------------------ the interpreter

\* The (user_field, confidence) pair _match_field_patterns returns.
Hit(category, confidence) == [user_field |-> Str(category), confidence |-> confidence]

NoHit == [user_field |-> None, confidence |-> 0]

\* A plausible slip: the generic name rule tried before the specific ones.
MatchFieldPatternsNameFirst(field_text, field_type) ==
    IF field_type = Str(<<"e","m","a","i","l">>) \/ Search(EMAIL_PATTERN, field_text) THEN Hit(<<"e","m","a","i","l">>, 90)
    ELSE IF field_type = Str(<<"t","e","l">>) \/ Search(PHONE_PATTERN, field_text) THEN Hit(<<"p","h","o","n","e">>, 90)
    ELSE IF Search(NAME_PATTERN, field_text) THEN Hit(<<"f","u","l","l","_","n","a","m","e">>, 80)
    ELSE IF Search(FIRST_NAME_PATTERN, field_text) THEN Hit(<<"f","i","r","s","t","_","n","a","m","e">>, 90)
    ELSE IF Search(LAST_NAME_PATTERN, field_text) THEN Hit(<<"l","a","s","t","_","n","a","m","e">>, 90)
    ELSE IF Search(ADDRESS_PATTERN, field_text) THEN Hit(<<"a","d","d","r","e","s","s","_","s","t","r","e","e","t">>, 80)
    ELSE IF Search(CITY_PATTERN, field_text) THEN Hit(<<"a","d","d","r","e","s","s","_","c","i","t","y">>, 80)
    ELSE IF Search(STATE_PATTERN, field_text) THEN Hit(<<"a","d","d","r","e","s","s","_","s","t","a","t","e">>, 80)
    ELSE IF Search(ZIP_PATTERN, field_text) THEN Hit(<<"a","d","d","r","e","s","s","_","z","i","p">>, 90)
    ELSE IF Search(COUNTRY_PATTERN, field_text) THEN Hit(<<"a","d","d","r","e","s","s","_","c","o","u","n","t","r","y">>, 90)
    ELSE NoHit

\* A plausible slip: the input type is not consulted by the email rule.
MatchFieldPatternsTextOnly(field_text, field_type) ==
    IF Search(EMAIL_PATTERN, field_text) THEN Hit(<<"e","m","a","i","l">>, 90)
    ELSE IF field_type = Str(<<"t","e","l">>) \/ Search(PHONE_PATTERN, field_text) THEN Hit(<<"p","h","o","n","e">>, 90)
    ELSE IF Search(FIRST_NAME_PATTERN, field_text) THEN Hit(<<"f","i","r","s","t","_","n","a","m","e">>, 90)
    ELSE IF Search(LAST_NAME_PATTERN, field_text) THEN Hit(<<"l","a","s","t","_","n","a","m","e">>, 90)
    ELSE IF Search(NAME_PATTERN, field_text) THEN Hit(<<"f","u","l","l","_","n","a","m","e">>, 80)
    ELSE IF Search(ADDRESS_PATTERN, field_text) THEN Hit(<<"a","d","d","r","e","s","s","_","s","t","r","e","e","t">>, 80)
    ELSE IF Search(CITY_PATTERN, field_text) THEN Hit(<<"a","d","d","r","e","s","s","_","c","i","t","y">>, 80)
    ELSE IF Search(STATE_PATTERN, field_text) THEN Hit(<<"a","d","d","r","e","s","s","_","s","t","a","t","e">>, 80)
    ELSE IF Search(ZIP_PATTERN, field_text) THEN Hit(<<"a","d","d","r","e","s","s","_","z","i","p">>, 90)
    ELSE IF Search(COUNTRY_PATTERN, field_text) THEN Hit(<<"a","d","d","r","e","s","s","_","c","o","u","n","t","r","y">>, 90)
    ELSE NoHit

\* FormInterpreter._match_field_patterns
MatchFieldPatterns(field_text, field_type) ==
    IF field_type = Str(<<"e","m","a","i","l">>) \/ Search(EMAIL_PATTERN, field_text) THEN Hit(<<"e","m","a","i","l">>, 90)
    ELSE IF field_type = Str(<<"t","e","l">>) \/ Search(PHONE_PATTERN, field_text) THEN Hit(<<"p","h","o","n","e">>, 90)
    ELSE IF Search(FIRST_NAME_PATTERN, field_text) THEN Hit(<<"f","i","r","s","t","_","n","a","m","e">>, 90)
    ELSE IF Search(LAST_NAME_PATTERN, field_text) THEN Hit(<<"l","a","s","t","_","n","a","m","e">>, 90)
    ELSE IF Search(NAME_PATTERN, field_text) THEN Hit(<<"f","u","l","l","_","n","a","m","e">>, 80)
    ELSE IF Search(ADDRESS_PATTERN, field_text) THEN Hit(<<"a","d","d","r","e","s","s","_","s","t","r","e","e","t">>, 80)
    ELSE IF Search(CITY_PATTERN, field_text) THEN Hit(<<"a","d","d","r","e","s","s","_","c","i","t","y">>, 80)
    ELSE IF Search(STATE_PATTERN, field_text) THEN Hit(<<"a","d","d","r","e","s","s","_","s","t","a","t","e">>, 80)
    ELSE IF Search(ZIP_PATTERN, field_text) THEN Hit(<<"a","d","d","r","e","s","s","_","z","i","p">>, 90)
    ELSE IF Search(COUNTRY_PATTERN, field_text) THEN Hit(<<"a","d","d","r","e","s","s","_","c","o","u","n","t","r","y">>, 90)
    ELSE NoHit

\* The sanity limit on the length of a RAG answer (len(rag_field) < 50).
RagMaxLen == 50

\* One answer of the RAG chain to qa.invoke(query): kind "raise" (invoke raised),
\* "null" (the result holds None under 'result') or "answer" with the text
\* result.get('result', '') yields.
Raise == [kind |-> "raise", text |-> <<>>]

NullAnswer == [kind |-> "null", text |-> <<>>]

Answer(text) == [kind |-> "answer", text |-> text]

\* rag_field = result.get('result', '').strip().lower()
RagField(outcome) == Lower(Strip(outcome.text))

\* The query returned and `rag_field and len(rag_field) < 50` holds.
RagUsable(outcome) ==
    /\ outcome.kind = "answer"
    /\ RagField(outcome) # <<>>
    /\ Len(RagField(outcome)) < RagMaxLen

Mapping(field_name, field_type, user_field, confidence, method) ==
    [present |-> TRUE, field_name |-> field_name, field_type |-> field_type,
     user_field |-> user_field, confidence |-> confidence, method |-> method]

\* _interpret_field returning None
NoMapping ==
    [present |-> FALSE, field_name |-> None, field_type |-> None,
     user_field |-> <<>>, confidence |-> 0, method |-> "none"]

\* An element of the 'fields' list: a dict with the five attributes, or something
\* that is no dict (a str, a number, null).
Field(name, id, type, label, placeholder) ==
    [kind |-> "dict", name |-> name, id |-> id, type |-> type,
     label |-> label, placeholder |-> placeholder]

NonDict(kind) ==
    [kind |-> kind, name |-> Absent, id |-> Absent, type |-> Absent,
     label |-> Absent, placeholder |-> Absent]

\* field_text = f"{field_name} {field_id} {field_label} {field_placeholder}"
FieldText(field) ==
    Fmt(Get(field.name, Str(<<>>))) \o <<" ">> \o Fmt(Get(field.id, Str(<<>>))) \o <<" ">>
        \o Fmt(Get(field.label, Str(<<>>))) \o <<" ">> \o Fmt(Get(field.placeholder, Str(<<>>)))

\* A plausible slip: no try/except around the query, so a failure of qa.invoke
\* (or of .strip() on a missing answer) propagates.
InterpretFieldNoCatch(field, outcome) ==
    IF field.kind # "dict"
    THEN [raised |-> TRUE, mapping |-> NoMapping, queried |-> FALSE]
    ELSE
      LET field_name == Get(field.name, Str(<<>>))
          field_id   == Get(field.id, Str(<<>>))
          field_type == Get(field.type, Str(<<>>))
          m          == MatchFieldPatterns(FieldText(field), field_type)
          pattern    == Mapping(Or(field_name, field_id), field_type, m.user_field.s,
                                m.confidence, "pattern_matching")
          asks       == rag_enabled /\ qa
      IN  IF Truthy(m.user_field) /\ m.confidence >= 80
          THEN [raised |-> FALSE, mapping |-> pattern, queried |-> FALSE]
          ELSE IF asks /\ outcome.kind \in {"raise", "null"}
          THEN [raised |-> TRUE, mapping |-> NoMapping, queried |-> TRUE]
          ELSE IF asks /\ RagUsable(outcome)
          THEN [raised |-> FALSE,
                mapping |-> Mapping(Or(field_name, field_id), field_type,
                                    RagField(outcome), 85, "rag"),
                queried |-> TRUE]
          ELSE IF Truthy(m.user_field)
          THEN [raised |-> FALSE, mapping |-> pattern, queried |-> asks]
          ELSE [raised |-> FALSE, mapping |-> NoMapping, queried |-> asks]

\* A plausible slip: `confidence > 0.8`, so that a pattern of confidence 0.8 is
\* no high-confidence match and the RAG chain is asked.
InterpretFieldAbove(field, outcome) ==
    IF field.kind # "dict"
    THEN [raised |-> TRUE, mapping |-> NoMapping, queried |-> FALSE]
    ELSE
      LET field_name == Get(field.name, Str(<<>>))
          field_id   == Get(field.id, Str(<<>>))
          field_type == Get(field.type, Str(<<>>))
          m          == MatchFieldPatterns(FieldText(field), field_type)
          pattern    == Mapping(Or(field_name, field_id), field_type, m.user_field.s,
                                m.confidence, "pattern_matching")
          asks       == rag_enabled /\ qa
      IN  IF Truthy(m.user_field) /\ m.confidence > 80
          THEN [raised |-> FALSE, mapping |-> pattern, queried |-> FALSE]
          ELSE IF asks /\ RagUsable(outcome)
          THEN [raised |-> FALSE,
                mapping |-> Mapping(Or(field_name, field_id), field_type,
                                    RagField(outcome), 85, "rag"),
                queried |-> TRUE]
          ELSE IF Truthy(m.user_field)
          THEN [raised |-> FALSE, mapping |-> pattern, queried |-> asks]
          ELSE [raised |-> FALSE, mapping |-> NoMapping, queried |-> asks]

\* FormInterpreter._interpret_field: [raised, mapping, queried]; raised when
\* field.get fails (the element is no dict), queried when qa.invoke was called,
\* to which the RAG chain answered with `outcome`.
InterpretField(field, outcome) ==
    IF field.kind # "dict"
    THEN [raised |-> TRUE, mapping |-> NoMapping, queried |-> FALSE]
    ELSE
      LET field_name == Get(field.name, Str(<<>>))
          field_id   == Get(field.id, Str(<<>>))
          field_type == Get(field.type, Str(<<>>))
          m          == MatchFieldPatterns(FieldText(field), field_type)
          pattern    == Mapping(Or(field_name, field_id), field_type, m.user_field.s,
                                m.confidence, "pattern_matching")
          asks       == rag_enabled /\ qa
      IN  IF Truthy(m.user_field) /\ m.confidence >= 80
          THEN [raised |-> FALSE, mapping |-> pattern, queried |-> FALSE]
          ELSE IF asks /\ RagUsable(outcome)
          THEN [raised |-> FALSE,
                mapping |-> Mapping(Or(field_name, field_id), field_type,
                                    RagField(outcome), 85, "rag"),
                queried |-> TRUE]
          ELSE IF Truthy(m.user_field)
          THEN [raised |-> FALSE, mapping |-> pattern, queried |-> asks]
          ELSE [raised |-> FALSE, mapping |-> NoMapping, queried |-> asks]

RECURSIVE SumConfidence(_)
\* sum(m['confidence'] for m in mappings)
SumConfidence(mappings) ==
    IF mappings = <<>> THEN 0
    ELSE Head(mappings).confidence + SumConfidence(Tail(mappings))

\* A plausible slip: the sum is returned, not divided by the number of mappings.
CalculateConfidenceNoDivision(mappings) ==
    IF mappings = <<>> THEN [num |-> 0, den |-> 1]
    ELSE [num |-> SumConfidence(mappings), den |-> 1]

\* A plausible slip: no guard for the empty list, so the mean is 0/0.
CalculateConfidenceNoGuard(mappings) ==
    [num |-> SumConfidence(mappings), den |-> Len(mappings)]

\* A plausible slip: the denominator is off by one.
CalculateConfidenceOffByOne(mappings) ==
    IF mappings = <<>> THEN [num |-> 0, den |-> 1]
    ELSE [num |-> SumConfidence(mappings), den |-> Len(mappings) + 1]

\* FormInterpreter._calculate_confidence: 0.0 for no mappings, else total / len
CalculateConfidence(mappings) ==
    IF mappings = <<>> THEN [num |-> 0, den |-> 1]
    ELSE [num |-> SumConfidence(mappings), den |-> Len(mappings)]

\* The value under 'fields' of form_data: t = "list" with its items, "absent",
\* "none" (null), or a value that is no list: 0 ("zero"), a non-zero number
\* ("num"), '' ("emptystr"), a non-empty str, {} ("emptydict"), a non-empty dict.
Fields(t, items) == [t |-> t, items |-> items]

\* form_data.get('fields', [])
FieldsOf(form_data) ==
    IF form_data.fields.t = "absent" THEN Fields("list", <<>>) ELSE form_data.fields

\* not fields
Falsy(fields) ==
    \/ fields.t \in {"none", "zero", "emptystr", "emptydict"}
    \/ fields.t = "list" /\ fields.items = <<>>

\* `for field in fields` can start: a number is not iterable.
Iterable(fields) == fields.t # "num"

\* What `for field in fields` yields: the items of a list; the characters of a str
\* and the keys of a dict are strs.
Elements(fields) ==
    IF fields.t = "list" THEN fields.items ELSE <<NonDict("str")>>

\* {'mappings': [], 'confidence': 0}
EmptyResult ==
    [raised |-> FALSE, mappings |-> <<>>, confidence |-> [num |-> 0, den |-> 1],
     rag_flag |-> FALSE, log |-> <<>>]

Raised(log) ==
    [raised |-> TRUE, mappings |-> <<>>, confidence |-> [num |-> 0, den |-> 1],
     rag_flag |-> FALSE, log |-> log]

Query(i, kind, outcome) == [field |-> i, kind |-> kind, outcome |-> outcome]

RECURSIVE InterpretLoopNewestFirst(_, _, _, _, _)
\* A plausible slip: a new mapping is put at the front of the list.
InterpretLoopNewestFirst(elems, oracle, i, mappings, log) ==
    IF i > Len(elems)
    THEN [raised |-> FALSE, mappings |-> mappings,
          confidence |-> CalculateConfidence(mappings), rag_flag |-> FALSE, log |-> log]
    ELSE LET r == InterpretField(elems[i], oracle[i])
         IN  IF r.raised THEN Raised(log)
             ELSE InterpretLoopNewestFirst(elems, oracle, i + 1,
                    IF r.mapping.present THEN <<r.mapping>> \o mappings ELSE mappings,
                    IF r.queried THEN Append(log, Query(i, "field", oracle[i])) ELSE log)

RECURSIVE InterpretLoop(_, _, _, _, _)
\* interpret_form's loop over the fields from index i on, with the mappings and
\* the RAG queries made so far; oracle[i] answers the query for field i.
InterpretLoop(elems, oracle, i, mappings, log) ==
    IF i > Len(elems)
    THEN [raised |-> FALSE, mappings |-> mappings,
          confidence |-> CalculateConfidence(mappings), rag_flag |-> FALSE, log |-> log]
    ELSE LET r == InterpretField(elems[i], oracle[i])
         IN  IF r.raised THEN Raised(log)
             ELSE InterpretLoop(elems, oracle, i + 1,
                    IF r.mapping.present THEN Append(mappings, r.mapping) ELSE mappings,
                    IF r.queried THEN Append(log, Query(i, "field", oracle[i])) ELSE log)

\* FormInterpreter.interpret_form
InterpretForm(form_data, oracle) ==
    LET fields == FieldsOf(form_data)
    IN  IF Falsy(fields) THEN EmptyResult
        ELSE IF ~Iterable(fields) THEN Raised(<<>>)
        ELSE InterpretLoop(Elements(fields), oracle, 1, <<>>, <<>>)

RECURSIVE EnhanceLoop(_, _, _, _, _, _)
\* enhance_with_ai's loop over the fields: the regular interpretation, then the
\* contextual query (answered by oracle2[i]) when it gave no mapping or one
\* below 0.7.
EnhanceLoop(elems, oracle, oracle2, i, mappings, log) ==
    IF i > Len(elems)
    THEN [raised |-> FALSE, mappings |-> mappings,
          confidence |-> CalculateConfidence(mappings), rag_flag |-> TRUE, log |-> log]
    ELSE LET field == elems[i]
             r     == InterpretField(field, oracle[i])
             log1  == IF r.queried THEN Append(log, Query(i, "field", oracle[i])) ELSE log
             again == ~r.mapping.present \/ r.mapping.confidence < 70
             m2    == IF again /\ qa /\ RagUsable(oracle2[i])
                      THEN Mapping(Or(Get(field.name, Str(<<>>)), Get(field.id, Str(<<>>))),
                                   Get(field.type, Str(<<>>)), RagField(oracle2[i]),
                                   90, "contextual_rag")
                      ELSE r.mapping
             log2  == IF again /\ qa THEN Append(log1, Query(i, "contextual", oracle2[i])) ELSE log1
         IN  EnhanceLoop(elems, oracle, oracle2, i + 1,
                IF m2.present THEN Append(mappings, m2) ELSE mappings, log2)

\* FormInterpreter.enhance_with_ai; building the field descriptions calls
\* field.get on every element, and any failure falls back to interpret_form.
EnhanceWithAi(form_data, oracle, oracle2) ==
    IF ~rag_enabled THEN InterpretForm(form_data, oracle)
    ELSE LET fields == FieldsOf(form_data)
         IN  IF Falsy(fields) THEN EmptyResult
             ELSE IF ~Iterable(fields)
                     \/ \E i \in 1..Len(Elements(fields)) : Elements(fields)[i].kind # "dict"
             THEN InterpretForm(form_data, oracle)
             ELSE EnhanceLoop(Elements(fields), oracle, oracle2, 1, <<>>, <<>>)

\* ------------------------------------------------------- interpreter: inputs

Empty == Str(<<>>)

FieldNames ==
    {Absent, None, Empty,
     Str(<<"f","n","a","m","e">>), Str(<<"f","i","r","s","t","_","n","a","m","e">>), Str(<<"G","i","v","e","n","-","N","a","m","e">>), Str(<<"l","n","a","m","e">>),
     Str(<<"l","a","s","t","_","n","a","m","e">>), Str(<<"f","u","l","l","_","n","a","m","e">>), Str(<<"n","i","c","k","n","a","m","e">>), Str(<<"e","m","a","i","l">>),
     Str(<<"p","h","o","n","e">>), Str(<<"a","d","d","r","e","s","s","_","s","t","r","e","e","t">>), Str(<<"a","d","d","r","e","s","s","_","c","i","t","y">>),
     Str(<<"a","d","d","r","e","s","s","_","s","t","a","t","e">>), Str(<<"a","d","d","r","e","s","s","_","z","i","p">>), Str(<<"a","d","d","r","e","s","s","_","c","o","u","n","t","r","y">>),
     Str(<<"p","r","o","v","i","n","c","e">>), Str(<<"z","i","p">>), Str(<<"n","a","t","i","o","n">>), Str(<<"a","g","e">>)}

FieldIds == {Empty, Str(<<"u","i","d">>), Str(<<"q","7">>)}

FieldTypes == {Absent, None, Str(<<"t","e","x","t">>), Str(<<"e","m","a","i","l">>), Str(<<"t","e","l">>)}

FieldLabels == {Empty, Str(<<"M","o","b","i","l","e">>), Str(<<"T","o","w","n">>)}

FieldPlaceholders == {Empty, Str(<<"P","o","s","t","a","l"," ","c","o","d","e">>)}

\* The descriptors handed to _interpret_field and _match_field_patterns.
FieldSet ==
    {Field(n, i, t, l, p) :
        n \in FieldNames, i \in FieldIds, t \in FieldTypes,
        l \in FieldLabels, p \in FieldPlaceholders}

\* Elements of a 'fields' list that are no objects.
NonDictSet == {NonDict("str"), NonDict("num"), NonDict("null")}

RECURSIVE Repeat(_, _)
Repeat(c, n) == IF n = 0 THEN <<>> ELSE <<c>> \o Repeat(c, n - 1)

\* The answers of the RAG chain to one query: failures, an empty and a blank
\* answer, short answers (with capitals and surrounding whitespace), and answers
\* at the sanity limit.
Outcomes ==
    {Raise, NullAnswer, Answer(<<>>), Answer(<<" ","\n">>),
     Answer(<<"E","m","a","i","l">>), Answer(<<" ","c","o","m","p","a","n","y"," ","\n">>),
     Answer(Repeat("x", RagMaxLen - 1)), Answer(Repeat("x", RagMaxLen)),
     Answer(Repeat("x", RagMaxLen - 1) \o <<"\n">>)}

\* The fields a form is built from, and the answers given to its queries.
FormFieldSet ==
    {Field(Str(<<"f","n","a","m","e">>), Empty, Str(<<"t","e","x","t">>), Empty, Empty),
     Field(Empty, Str(<<"a","d","d","r">>), Absent, Empty, Empty),
     Field(None, None, None, None, None),
     NonDict("str")}

FormOutcomes == {Raise, Answer(<<"C","o","m","p","a","n","y","\n">>)}

FormSet ==
    {[fields |-> Fields("list", items)] :
        items \in UNION {[1..n -> FormFieldSet] : n \in 0..MaxFields}}
    \cup {[fields |-> Fields(t, <<>>)] :
            t \in {"absent", "none", "zero", "num", "emptystr", "str", "emptydict", "dict"}}

\* One answer per field of the form (one per element the loop visits); the
\* queries of a form of one field get every kind of answer.
Oracles(form_data) ==
    LET n == Len(Elements(FieldsOf(form_data)))
    IN  [1..n -> IF n = 1 THEN Outcomes ELSE FormOutcomes]

\* The answers to the contextual queries of enhance_with_ai; a field whose first
\* query got a usable answer is not asked about again, so its entry is fixed.
ContextualOracles(form_data, oracle) ==
    {o2 \in Oracles(form_data) :
        \A i \in DOMAIN o2 : RagUsable(oracle[i]) => o2[i] = Raise}

\* ------------------------------------------------------ interpreter: actions

Idle == [op |-> "none"]

\* A call of _match_field_patterns(field_text, field_type).
MatchFieldPatternsCall ==
    /\ call = Idle
    /\ \E f \in FieldSet :
         LET field_type == Get(f.type, Empty)
         IN  call' = [op |-> "_match_field_patterns", text |-> FieldText(f),
                      type |-> field_type,
                      ret |-> MatchFieldPatterns(FieldText(f), field_type)]
    /\ UNCHANGED <<rag_enabled, qa, user_table, user_data, reply, storeVars, driverVars, launchVars, profileVars>>

\* A call of _interpret_field(field); the RAG chain, when asked, answers `o`.
InterpretFieldCall ==
    /\ call = Idle
    /\ \E f \in FieldSet \cup NonDictSet, o \in Outcomes :
         LET r == InterpretField(f, o)
         IN  call' = [op |-> "_interpret_field", field |-> f,
                      rag |-> IF r.queried THEN <<o>> ELSE <<>>, ret |-> r]
    /\ UNCHANGED <<rag_enabled, qa, user_table, user_data, reply, storeVars, driverVars, launchVars, profileVars>>

\* A call of interpret_form(form_data).
InterpretFormCall ==
    /\ call = Idle
    /\ \E form_data \in FormSet : \E oracle \in Oracles(form_data) :
         call' = [op |-> "interpret_form", form_data |-> form_data,
                  ret |-> InterpretForm(form_data, oracle)]
    /\ UNCHANGED <<rag_enabled, qa, user_table, user_data, reply, storeVars, driverVars, launchVars, profileVars>>

\* A call of enhance_with_ai(form_data).
EnhanceWithAiCall ==
    /\ call = Idle
    /\ \E form_data \in FormSet :
         \E oracle \in Oracles(form_data) : \E oracle2 \in ContextualOracles(form_data, oracle) :
           call' = [op |-> "enhance_with_ai", form_data |-> form_data,
                    ret |-> EnhanceWithAi(form_data, oracle, oracle2)]
    /\ UNCHANGED <<rag_enabled, qa, user_table, user_data, reply, storeVars, driverVars, launchVars, profileVars>>

\* The caller takes the result; the interpreter is ready for the next call.
ReturnCall ==
    /\ call # Idle
    /\ call' = Idle
    /\ UNCHANGED <<rag_enabled, qa, user_table, user_data, reply, storeVars, driverVars, launchVars, profileVars>>

NoUserData == [live |-> FALSE]

NoReply == [op |-> "none"]

\* No store, driver or launcher activity (the parts constructed and not used).
NoEvent == [kind |-> "none"]

InitStore == form_mappings = <<>> /\ saved = <<>>

\* SafariAutoFiller.__init__ / BrowserAutoFiller.__init__
InitDriver ==
    /\ running = FALSE
    /\ filled_inputs = {}
    /\ fill_hidden_inputs = FALSE
    /\ pc = "new"
    /\ quit_calls = 0
    /\ slept = FALSE
    /\ failed = {}
    /\ event = NoEvent

NoLaunch == argv = <<>> /\ command = <<>> /\ main_state = "new"

\* A file that does not exist.
Missing == [t |-> "missing", s |-> <<>>]

\* No Firefox profile is at hand.
NoProfile == prefs_js = Missing /\ user_js = Missing /\ profile_calls = <<>>

\* FormInterpreter.__init__: RAG is enabled only together with a QA chain.
InitInterp ==
    /\ rag_enabled \in BOOLEAN
    /\ qa = rag_enabled
    /\ call = Idle
    /\ user_table = {}
    /\ user_data = NoUserData
    /\ reply = NoReply
    /\ InitStore
    /\ InitDriver
    /\ NoLaunch
    /\ NoProfile

NextInterp ==
    \/ MatchFieldPatternsCall
    \/ InterpretFieldCall
    \/ InterpretFormCall
    \/ EnhanceWithAiCall
    \/ ReturnCall

SpecInterp == InitInterp /\ [][NextInterp]_vars

\* ------------------------------------------------------ interpreter: claims

\* The fixed table of (category, confidence), in priority order.
Rules ==
    << [category |-> <<"e","m","a","i","l">>, confidence |-> 90],
       [category |-> <<"p","h","o","n","e">>, confidence |-> 90],
       [category |-> <<"f","i","r","s","t","_","n","a","m","e">>, confidence |-> 90],
       [category |-> <<"l","a","s","t","_","n","a","m","e">>, confidence |-> 90],
       [category |-> <<"f","u","l","l","_","n","a","m","e">>, confidence |-> 80],
       [category |-> <<"a","d","d","r","e","s","s","_","s","t","r","e","e","t">>, confidence |-> 80],
       [category |-> <<"a","d","d","r","e","s","s","_","c","i","t","y">>, confidence |-> 80],
       [category |-> <<"a","d","d","r","e","s","s","_","s","t","a","t","e">>, confidence |-> 80],
       [category |-> <<"a","d","d","r","e","s","s","_","z","i","p">>, confidence |-> 90],
       [category |-> <<"a","d","d","r","e","s","s","_","c","o","u","n","t","r","y">>, confidence |-> 90] >>

\* The detector of rule k.
Detector(k, text, type) ==
    CASE k = 1 -> type = Str(<<"e","m","a","i","l">>) \/ Search(EMAIL_PATTERN, text)
      [] k = 2 -> type = Str(<<"t","e","l">>) \/ Search(PHONE_PATTERN, text)
      [] k = 3 -> Search(FIRST_NAME_PATTERN, text)
      [] k = 4 -> Search(LAST_NAME_PATTERN, text)
      [] k = 5 -> Search(NAME_PATTERN, text)
      [] k = 6 -> Search(ADDRESS_PATTERN, text)
      [] k = 7 -> Search(CITY_PATTERN, text)
      [] k = 8 -> Search(STATE_PATTERN, text)
      [] k = 9 -> Search(ZIP_PATTERN, text)
      [] k = 10 -> Search(COUNTRY_PATTERN, text)

Satisfied(text, type) == {k \in 1..Len(Rules) : Detector(k, text, type)}

Categories == {Rules[k].category : k \in 1..Len(Rules)}

\* C1: _match_field_patterns returns the category and confidence of the first rule
\* of the table whose detector is satisfied, and (None, 0.0) exactly when no
\* detector is satisfied.
C1_FirstRuleWins ==
    call.op = "_match_field_patterns" =>
        LET sat == Satisfied(call.text, call.type)
        IN  /\ (call.ret = NoHit) <=> (sat = {})
            /\ sat # {} =>
                 LET k == CHOOSE j \in sat : \A i \in sat : j <= i
                 IN  call.ret = Hit(Rules[k].category, Rules[k].confidence)

\* A call where a later rule (the generic name rule) is satisfied too and the
\* earlier one wins.
C1_Witness ==
    /\ call.op = "_match_field_patterns"
    /\ call.ret = Hit(<<"f","i","r","s","t","_","n","a","m","e">>, 90)
    /\ Cardinality(Satisfied(call.text, call.type)) >= 2

\* C2: a descriptor whose text matches the first-name detector, and neither the
\* email nor the phone detector, and whose type is neither email nor tel, is
\* interpreted as first_name at 0.9, never full_name.
C2_FirstNameBeforeFullName ==
    (/\ call.op = "_interpret_field"
     /\ call.field.kind = "dict"
     /\ Search(FIRST_NAME_PATTERN, FieldText(call.field))
     /\ ~Search(EMAIL_PATTERN, FieldText(call.field))
     /\ ~Search(PHONE_PATTERN, FieldText(call.field))
     /\ Get(call.field.type, Empty) \notin {Str(<<"e","m","a","i","l">>), Str(<<"t","e","l">>)})
    => /\ ~call.ret.raised
       /\ call.ret.mapping.present
       /\ call.ret.mapping.user_field = <<"f","i","r","s","t","_","n","a","m","e">>
       /\ call.ret.mapping.confidence = 90

\* The regression scenario: {name: "fname", id: "", label: "", placeholder: ""}.
C2_Witness ==
    /\ call.op = "_interpret_field"
    /\ call.field = Field(Str(<<"f","n","a","m","e">>), Empty, Absent, Empty, Empty)
    /\ Search(NAME_PATTERN, FieldText(call.field))
    /\ call.ret.mapping.user_field = <<"f","i","r","s","t","_","n","a","m","e">>

\* C3: a descriptor of type "email" is interpreted as email at 0.9 by pattern
\* matching, whatever its text and whether or not RAG is enabled.
C3_EmailType ==
    (/\ call.op = "_interpret_field"
     /\ call.field.kind = "dict"
     /\ call.field.type = Str(<<"e","m","a","i","l">>))
    => /\ ~call.ret.raised
       /\ call.ret.mapping.present
       /\ call.ret.mapping.user_field = <<"e","m","a","i","l">>
       /\ call.ret.mapping.confidence = 90
       /\ call.ret.mapping.method = "pattern_matching"

\* A field of type email whose text names a phone, interpreted with RAG enabled.
C3_Witness ==
    /\ call.op = "_interpret_field"
    /\ rag_enabled
    /\ call.field.kind = "dict"
    /\ call.field.type = Str(<<"e","m","a","i","l">>)
    /\ call.field.name = Str(<<"p","h","o","n","e">>)
    /\ call.ret.mapping.user_field = <<"e","m","a","i","l">>

IsZero(c) == c.den > 0 /\ c.num = 0

\* C4: interpret_form returns mappings [] and confidence 0 when the field list is
\* empty or absent, and confidence 0 whenever it returns no mapping.
C4_EmptyResult ==
    call.op = "interpret_form" =>
        /\ (\/ call.form_data.fields.t = "absent"
            \/ call.form_data.fields = Fields("list", <<>>))
           => /\ ~call.ret.raised
              /\ call.ret.mappings = <<>>
              /\ IsZero(call.ret.confidence)
        /\ (~call.ret.raised /\ call.ret.mappings = <<>>) => IsZero(call.ret.confidence)

\* A non-empty list of fields none of which produced a mapping.
C4_Witness ==
    /\ call.op = "interpret_form"
    /\ call.form_data.fields.t = "list"
    /\ Len(call.form_data.fields.items) >= 2
    /\ ~call.ret.raised
    /\ call.ret.mappings = <<>>

C6_ConfidenceRange ==
    (call.op \in {"interpret_form", "enhance_with_ai"} /\ ~call.ret.raised)
    => /\ call.ret.confidence.den > 0
       /\ 0 <= call.ret.confidence.num
       /\ call.ret.confidence.num <= 100 * call.ret.confidence.den
       /\ \A i \in 1..Len(call.ret.mappings) :
            LET m == call.ret.mappings[i]
            IN  /\ 0 <= m.confidence /\ m.confidence <= 100
                /\ m.method = "pattern_matching" => m.user_field \in Categories

\* An enhanced result holding a pattern-matched and a contextual mapping.
C6_Witness ==
    /\ call.op = "enhance_with_ai"
    /\ ~call.ret.raised
    /\ \E i, j \in 1..Len(call.ret.mappings) :
         /\ call.ret.mappings[i].method = "pattern_matching"
         /\ call.ret.mappings[j].method = "contextual_rag"

\* C7: interpret_form never raises, whatever 'fields' holds.
C7_NeverRaises ==
    call.op = "interpret_form" => ~call.ret.raised

\* What pattern matching alone returns for a field.
PatternOnly(field) ==
    LET m == MatchFieldPatterns(FieldText(field), Get(field.type, Empty))
    IN  IF Truthy(m.user_field)
        THEN Mapping(Or(Get(field.name, Empty), Get(field.id, Empty)),
                     Get(field.type, Empty), m.user_field.s, m.confidence,
                     "pattern_matching")
        ELSE NoMapping

\* The query raised, or returned an empty answer or one of 50 or more characters.
FailedAsClaimed(o) ==
    \/ o.kind = "raise"
    \/ o.kind = "answer" /\ (o.text = <<>> \/ Len(o.text) >= 50)

\* The query raised (or its result held no text), or the answer stripped of
\* surrounding whitespace is empty or has 50 or more characters.
FailedStripped(o) ==
    \/ o.kind \in {"raise", "null"}
    \/ o.kind = "answer" /\ (Strip(o.text) = <<>> \/ Len(Strip(o.text)) >= 50)

FailedContextual(log, Failed(_)) ==
    {i \in 1..Len(log) : log[i].kind = "contextual" /\ Failed(log[i].outcome)}

\* The fallback after failed queries: _interpret_field returns what pattern
\* matching alone returns; in enhance_with_ai a field whose contextual query
\* failed has no pattern match and gets no mapping.
FallsBack(Failed(_)) ==
    /\ (/\ call.op = "_interpret_field"
        /\ rag_enabled
        /\ call.rag # <<>>
        /\ Failed(call.rag[1]))
       => /\ ~call.ret.raised
          /\ call.ret.mapping = PatternOnly(call.field)
    /\ (call.op = "enhance_with_ai" /\ rag_enabled /\ call.ret.rag_flag)
       => LET items == call.form_data.fields.items
              bad   == FailedContextual(call.ret.log, Failed)
          IN  /\ \A q \in bad : PatternOnly(items[call.ret.log[q].field]) = NoMapping
              /\ Cardinality(bad) > 0 => Len(call.ret.mappings) <= Len(items) - Cardinality(bad)

\* C8 as stated: with RAG enabled, a query that raises or returns an empty answer
\* or an answer of 50 or more characters leaves the pattern-matching result.
C8_FallbackAsClaimed == FallsBack(FailedAsClaimed)

\* C8, amended: the length that counts is the one of the answer stripped of
\* surrounding whitespace (as the code measures it).
C8_FallbackStripped == FallsBack(FailedStripped)

\* A failed query, with RAG enabled, for a field the patterns do not match; and
\* the same for a contextual query.
C8_Witness ==
    \/ /\ call.op = "_interpret_field"
       /\ rag_enabled
       /\ call.rag = <<Answer(Repeat("x", RagMaxLen))>>
       /\ ~call.ret.mapping.present
    \/ /\ call.op = "enhance_with_ai"
       /\ call.ret.rag_flag
       /\ FailedContextual(call.ret.log, FailedStripped) # {}

\* ------------------------------------------------ user profiles and storage

\* A profile dictionary is a function from its keys to Python values; {} is <<>>.
KnownFields ==
    {"first_name", "last_name", "full_name", "email", "phone", "address_street",
     "address_city", "address_state", "address_zip", "address_country"}

\* data.get(key)
DictGet(data, key) == IF key \in DOMAIN data THEN data[key] ELSE None

\* A plausible slip: the custom fields take every non-null key, known ones too.
FromDictAllCustom(user_id, data) ==
    [live |-> TRUE, user_id |-> user_id,
     first_name |-> DictGet(data, "first_name"),
     last_name |-> DictGet(data, "last_name"),
     full_name |-> DictGet(data, "full_name"),
     email |-> DictGet(data, "email"),
     phone |-> DictGet(data, "phone"),
     address_street |-> DictGet(data, "address_street"),
     address_city |-> DictGet(data, "address_city"),
     address_state |-> DictGet(data, "address_state"),
     address_zip |-> DictGet(data, "address_zip"),
     address_country |-> DictGet(data, "address_country"),
     custom_fields |-> [k \in {k \in DOMAIN data : data[k] # None} |-> data[k]]]

\* UserData.from_dict
FromDict(user_id, data) ==
    [live |-> TRUE, user_id |-> user_id,
     first_name |-> DictGet(data, "first_name"),
     last_name |-> DictGet(data, "last_name"),
     full_name |-> DictGet(data, "full_name"),
     email |-> DictGet(data, "email"),
     phone |-> DictGet(data, "phone"),
     address_street |-> DictGet(data, "address_street"),
     address_city |-> DictGet(data, "address_city"),
     address_state |-> DictGet(data, "address_state"),
     address_zip |-> DictGet(data, "address_zip"),
     address_country |-> DictGet(data, "address_country"),
     custom_fields |->
        [k \in {k \in DOMAIN data : k \notin KnownFields /\ data[k] # None} |-> data[k]]]

\* A plausible slip: the custom fields are not added to the result.
ToDictNoCustom(ud) ==
    [k \in {k \in KnownFields : ud[k] # None} |-> ud[k]]

\* UserData.to_dict: the standard fields that are not None, then
\* result.update(self.custom_fields)
ToDict(ud) ==
    LET kept == {k \in KnownFields : ud[k] # None}
    IN  [k \in kept \cup DOMAIN ud.custom_fields |->
            IF k \in DOMAIN ud.custom_fields THEN ud.custom_fields[k] ELSE ud[k]]

\* `if key in data: self.key = data[key]`
Updated(data, key, old) == IF key \in DOMAIN data THEN data[key] ELSE old

\* UserData.update
Update(ud, data) ==
    [live |-> TRUE, user_id |-> ud.user_id,
     first_name |-> Updated(data, "first_name", ud.first_name),
     last_name |-> Updated(data, "last_name", ud.last_name),
     full_name |-> Updated(data, "full_name", ud.full_name),
     email |-> Updated(data, "email", ud.email),
     phone |-> Updated(data, "phone", ud.phone),
     address_street |-> Updated(data, "address_street", ud.address_street),
     address_city |-> Updated(data, "address_city", ud.address_city),
     address_state |-> Updated(data, "address_state", ud.address_state),
     address_zip |-> Updated(data, "address_zip", ud.address_zip),
     address_country |-> Updated(data, "address_country", ud.address_country),
     custom_fields |->
        [k \in DOMAIN ud.custom_fields \cup (DOMAIN data \ KnownFields) |->
            IF k \in DOMAIN data THEN data[k] ELSE ud.custom_fields[k]]]

\* json.dumps of a value: null, or the text in double quotes
DumpValue(v) == IF v.t = "none" THEN <<"n","u","l","l">> ELSE <<"\"">> \o v.s \o <<"\"">>

\* json.loads of a value
LoadValue(token) ==
    IF token = <<"n","u","l","l">> THEN None ELSE Str(SubSeq(token, 2, Len(token) - 1))

\* json.dumps(data): the JSON object, key by key
JsonDumps(data) == [k \in DOMAIN data |-> DumpValue(data[k])]

\* json.loads(text)
JsonLoads(text) == [k \in DOMAIN text |-> LoadValue(text[k])]

\* A row of table user_data (id TEXT PRIMARY KEY, data TEXT NOT NULL).
UserRow(user_id, text) == [id |-> user_id, data |-> text]

\* A plausible slip: INSERT OR IGNORE, which keeps the row a user already has.
DbSaveUserDataIgnore(table, user_id, data, db) ==
    IF db # "ok" THEN [ok |-> FALSE, table |-> table]
    ELSE IF \E r \in table : r.id = user_id THEN [ok |-> TRUE, table |-> table]
    ELSE [ok |-> TRUE, table |-> table \cup {UserRow(user_id, JsonDumps(data))}]

\* DatabaseManager.save_user_data: INSERT OR REPLACE INTO user_data deletes the
\* row that holds the primary key and inserts the new one; committed unless the
\* database fails.
DbSaveUserData(table, user_id, data, db) ==
    IF db = "ok"
    THEN [ok |-> TRUE,
          table |-> {r \in table : r.id # user_id} \cup {UserRow(user_id, JsonDumps(data))}]
    ELSE [ok |-> FALSE, table |-> table]

\* DatabaseManager.get_user_data: SELECT data ... WHERE id = ?, fetchone() and
\* json.loads; {} when there is no row; ok is FALSE where the code returns None
\* or raises (a database failure).
DbGetUserData(table, user_id, db) ==
    LET rows == {r \in table : r.id = user_id}
    IN  IF db # "ok" THEN [ok |-> FALSE, data |-> <<>>]
        ELSE IF rows # {}
        THEN [ok |-> TRUE, data |-> JsonLoads((CHOOSE r \in rows : TRUE).data)]
        ELSE [ok |-> TRUE, data |-> <<>>]

\* DataService.save_user_data: [ok, table]
ServiceSaveUserData(table, user_id, data, db) ==
    DbSaveUserData(table, user_id, ToDict(FromDict(user_id, data)), db)

\* DataService.get_user_data: {} for a new user and on any failure
ServiceGetUserData(table, user_id, db) ==
    LET got == DbGetUserData(table, user_id, db)
    IN  IF ~got.ok \/ got.data = <<>> THEN <<>> ELSE got.data

\* ------------------------------------------------------- form mappings: storage

\* A JSON number, written as its digits (0.5 is Num of "0.5"), and a non-empty
\* JSON object or array, which sqlite3 cannot bind to a statement parameter.
Num(digits) == [t |-> "num", s |-> digits]

Unsupported == [t |-> "dict", s |-> <<>>]

\* bool(v) of a JSON value: '', 0, null and a missing key's None are falsy.
Bool(v) ==
    CASE v.t = "str" -> v.s # <<>>
      [] v.t = "num" -> v.s \notin {<<"0">>, <<"0",".","0">>}
      [] v.t = "dict" -> TRUE
      [] OTHER -> FALSE

\* `for mapping in mappings` can start: a number and None are not iterable.
BulkIterable(mappings) == mappings.t \notin {"num", "zero", "none"}

\* What the loop runs over: the items of a list; nothing for '' and {}; the
\* characters of a str and the keys of a dict are strs.
BulkElements(mappings) ==
    CASE mappings.t = "list" -> mappings.items
      [] mappings.t \in {"emptystr", "emptydict"} -> <<>>
      [] OTHER -> <<NonDict("str")>>

\* A row of table form_mappings; the table is the sequence of its rows in the
\* order of their AUTOINCREMENT ids.
MappingRow(domain, form_id, field_name, field_type, user_field, confidence) ==
    [domain |-> domain, form_id |-> form_id, field_name |-> field_name,
     field_type |-> field_type, user_field |-> user_field, confidence |-> confidence]

\* UNIQUE(domain, form_id, field_name): the rows that conflict with a new row.
\* SQLite takes NULLs to be distinct in a UNIQUE constraint, so a row with a
\* NULL form_id conflicts with none.
Conflicts(r, domain, form_id, field_name) ==
    /\ form_id # None
    /\ r.domain = domain
    /\ r.form_id = form_id
    /\ r.field_name = field_name

\* A plausible slip: INSERT OR IGNORE, which keeps the row already stored.
DbSaveFormMappingIgnore(table, domain, field_name, user_field, form_id, field_type, confidence, db) ==
    LET params == {domain, form_id, field_name, field_type, user_field, confidence}
        keep(r) == ~Conflicts(r, domain, form_id, field_name)
    IN  IF db # "ok" \/ Unsupported \in params \/ None \in {domain, field_name, user_field}
        THEN [ok |-> FALSE, table |-> table]
        ELSE IF \E i \in 1..Len(table) : ~keep(table[i])
        THEN [ok |-> TRUE, table |-> table]
        ELSE [ok |-> TRUE,
              table |-> Append(table, MappingRow(domain, form_id, field_name,
                                                 field_type, user_field, confidence))]

\* A plausible slip: the save clears the mappings of its domain first.
DbSaveFormMappingPerDomain(table, domain, field_name, user_field, form_id, field_type, confidence, db) ==
    LET params == {domain, form_id, field_name, field_type, user_field, confidence}
        keep(r) == r.domain # domain
    IN  IF db # "ok" \/ Unsupported \in params \/ None \in {domain, field_name, user_field}
        THEN [ok |-> FALSE, table |-> table]
        ELSE [ok |-> TRUE,
              table |-> Append(SelectSeq(table, keep),
                               MappingRow(domain, form_id, field_name,
                                          field_type, user_field, confidence))]

\* DatabaseManager.save_form_mapping: INSERT OR REPLACE INTO form_mappings. A
\* parameter sqlite3 cannot bind, or NULL in a NOT NULL column (domain,
\* field_name, user_field), is a sqlite3.Error: nothing is stored, False.
DbSaveFormMapping(table, domain, field_name, user_field, form_id, field_type, confidence, db) ==
    LET params == {domain, form_id, field_name, field_type, user_field, confidence}
        keep(r) == ~Conflicts(r, domain, form_id, field_name)
    IN  IF db # "ok" \/ Unsupported \in params \/ None \in {domain, field_name, user_field}
        THEN [ok |-> FALSE, table |-> table]
        ELSE [ok |-> TRUE,
              table |-> Append(SelectSeq(table, keep),
                               MappingRow(domain, form_id, field_name,
                                          field_type, user_field, confidence))]

\* The dict get_form_mappings builds of a row.
StoredMapping(r) ==
    [field_name |-> r.field_name, field_type |-> r.field_type,
     user_field |-> r.user_field, confidence |-> r.confidence]

\* The list get_form_mappings builds of the fetched rows.
StoredMappings(rows) == [i \in 1..Len(rows) |-> StoredMapping(rows[i])]

\* A plausible slip: the form_id is compared also when none is given, so that a
\* fetch without form_id gives the rows saved without one.
DbGetFormMappingsExact(table, domain, form_id, db) ==
    LET wanted(r) == r.domain = domain /\ r.form_id = form_id
    IN  IF db # "ok" \/ Unsupported \in {domain, form_id}
        THEN [ok |-> FALSE, mappings |-> <<>>]
        ELSE [ok |-> TRUE, mappings |-> StoredMappings(SelectSeq(table, wanted))]

\* DatabaseManager.get_form_mappings: the rows of the domain, of the form when
\* form_id is truthy (`if form_id:`); [] on a sqlite3.Error. The query names no
\* order; the rows are given in the order of their ids.
DbGetFormMappings(table, domain, form_id, db) ==
    LET wanted(r) == r.domain = domain /\ (Bool(form_id) => r.form_id = form_id)
    IN  IF db # "ok" \/ Unsupported \in {domain, form_id}
        THEN [ok |-> FALSE, mappings |-> <<>>]
        ELSE [ok |-> TRUE, mappings |-> StoredMappings(SelectSeq(table, wanted))]

\* DataService.get_form_mappings: what the database manager returns
ServiceGetFormMappings(table, domain, form_id, db) ==
    DbGetFormMappings(table, domain, form_id, db).mappings

\* DataService.save_form_mapping: [ok, table]
ServiceSaveFormMapping(table, domain, field_name, user_field, form_id, field_type, confidence, db) ==
    DbSaveFormMapping(table, domain, field_name, user_field, form_id, field_type, confidence, db)

\* An element of the list handed to bulk_save_form_mappings: a dict with the
\* four keys it reads (Absent for a missing key).
Entry(field_name, user_field, field_type, confidence) ==
    [kind |-> "dict", field_name |-> field_name, user_field |-> user_field,
     field_type |-> field_type, confidence |-> confidence]

\* The call of db_manager.save_form_mapping made for the i-th element.
DbCall(i, ok) == [entry |-> i, ok |-> ok]

RECURSIVE BulkLoopUntilFailure(_, _, _, _, _, _, _, _)
\* A plausible slip: the loop returns False at the first save that fails.
BulkLoopUntilFailure(table, domain, elems, form_id, dbs, i, success, calls) ==
    IF i > Len(elems) THEN [ok |-> success, table |-> table, calls |-> calls]
    ELSE LET mapping == elems[i]
         IN  IF mapping.kind # "dict" THEN [ok |-> FALSE, table |-> table, calls |-> calls]
             ELSE IF ~Bool(mapping.field_name) \/ ~Bool(mapping.user_field)
             THEN BulkLoopUntilFailure(table, domain, elems, form_id, dbs, i + 1, success, calls)
             ELSE LET r == DbSaveFormMapping(table, domain, Get(mapping.field_name, None),
                                             Get(mapping.user_field, None), form_id,
                                             Get(mapping.field_type, None),
                                             Get(mapping.confidence, Num(<<"1",".","0">>)), dbs[i])
                  IN  IF ~r.ok
                      THEN [ok |-> FALSE, table |-> r.table, calls |-> Append(calls, DbCall(i, FALSE))]
                      ELSE BulkLoopUntilFailure(r.table, domain, elems, form_id, dbs, i + 1,
                                                success, Append(calls, DbCall(i, TRUE)))

RECURSIVE BulkLoop(_, _, _, _, _, _, _, _)
\* The loop of bulk_save_form_mappings from element i on: mapping.get fails on
\* an element that is no dict (the except clause returns False); an element
\* without a truthy field_name and user_field is passed over; dbs[i] is how the
\* database fares at the i-th element.
BulkLoop(table, domain, elems, form_id, dbs, i, success, calls) ==
    IF i > Len(elems) THEN [ok |-> success, table |-> table, calls |-> calls]
    ELSE LET mapping == elems[i]
         IN  IF mapping.kind # "dict" THEN [ok |-> FALSE, table |-> table, calls |-> calls]
             ELSE IF ~Bool(mapping.field_name) \/ ~Bool(mapping.user_field)
             THEN BulkLoop(table, domain, elems, form_id, dbs, i + 1, success, calls)
             ELSE LET r == DbSaveFormMapping(table, domain, Get(mapping.field_name, None),
                                             Get(mapping.user_field, None), form_id,
                                             Get(mapping.field_type, None),
                                             Get(mapping.confidence, Num(<<"1",".","0">>)), dbs[i])
                  IN  BulkLoop(r.table, domain, elems, form_id, dbs, i + 1,
                               success /\ r.ok, Append(calls, DbCall(i, r.ok)))

\* DataService.bulk_save_form_mappings: [ok, table, calls]; `for mapping in
\* mappings` fails on a number (False).
ServiceBulkSaveFormMappings(table, domain, mappings, form_id, dbs) ==
    IF ~BulkIterable(mappings) THEN [ok |-> FALSE, table |-> table, calls |-> <<>>]
    ELSE BulkLoop(table, domain, BulkElements(mappings), form_id, dbs, 1, TRUE, <<>>)

\* ------------------------------------------------------- data layer: inputs

\* Number of distinct user ids in use.
NumUsers == 2

UserIds == 1..NumUsers

ProfileValues == {None, Str(<<"a","@","b",".","c">>)}

\* The dictionaries over the given keys: each key missing, null or set.
Dicts(keys) ==
    UNION {[ks -> ProfileValues] : ks \in SUBSET keys}

\* Profiles saved through the service, and dictionaries handed to UserData.
ServiceDicts == Dicts({"email", "nickname"})

ModelDicts == Dicts({"email", "nickname", "age"})

\* How a database access ends.
DbOutcomes == {"ok", "error"}

\* ------------------------------------------------------ data layer: actions

\* DataService.save_user_data(user_id, data), the profile drawn from `dicts`.
SaveUserDataOver(dicts) ==
    /\ \E u \in UserIds, d \in dicts, db \in DbOutcomes :
         LET r == ServiceSaveUserData(user_table, u, d, db)
         IN  /\ user_table' = r.table
             /\ saved' = IF r.ok THEN (u :> d) @@ saved ELSE saved
             /\ reply' = [op |-> "save_user_data", user_id |-> u, data |-> d,
                          db |-> db, ret |-> r.ok]
    /\ UNCHANGED <<rag_enabled, qa, call, user_data, form_mappings, driverVars, launchVars, profileVars>>

SaveUserData == SaveUserDataOver(ServiceDicts)

\* DataService.get_user_data(user_id)
GetUserData ==
    /\ \E u \in UserIds, db \in DbOutcomes :
         reply' = [op |-> "get_user_data", user_id |-> u, db |-> db,
                   ret |-> ServiceGetUserData(user_table, u, db)]
    /\ UNCHANGED <<rag_enabled, qa, call, user_table, user_data, storeVars, driverVars, launchVars, profileVars>>

\* ------------------------------------------------ form mappings: inputs, actions

\* Most rows the table form_mappings holds before a save is made.
MaxRows == 2

Domains == {Str(<<"a",".","c","o","m">>), Str(<<"b",".","o","r","g">>)}

FormIds == {None, Str(<<"f","1">>)}

\* (user_field, field_type, confidence) of a save: two that can be stored, one
\* with a null user_field and one with a user_field that is a JSON object.
Payloads ==
    { [user_field |-> Str(<<"e","m","a","i","l">>), field_type |-> None, confidence |-> Num(<<"1",".","0">>)],
      [user_field |-> Str(<<"p","h","o","n","e">>), field_type |-> Str(<<"t","e","x","t">>), confidence |-> Num(<<"0",".","5">>)],
      [user_field |-> None, field_type |-> None, confidence |-> Num(<<"1",".","0">>)],
      [user_field |-> Unsupported, field_type |-> None, confidence |-> Num(<<"1",".","0">>)] }

\* The arguments of save_form_mapping.
MappingArgs(domains, form_ids, payloads) ==
    [domain : domains, form_id : form_ids, field_name : {Str(<<"e","m","a","i","l">>)}, payload : payloads]

AllMappings == MappingArgs(Domains, FormIds, Payloads)

FewMappings ==
    MappingArgs({Str(<<"a",".","c","o","m">>)}, {None},
                {[user_field |-> Str(<<"e","m","a","i","l">>), field_type |-> None, confidence |-> Num(<<"1",".","0">>)]})

\* The lists handed to bulk_save_form_mappings: complete entries, the same
\* field twice, an entry without field_name, one without user_field, one whose
\* user_field cannot be stored, and an element that is no dict.
BulkLists ==
    LET one   == Entry(Str(<<"e","m","a","i","l">>), Str(<<"e","m","a","i","l">>), Absent, Absent)
        two   == Entry(Str(<<"t","e","l">>), Str(<<"p","h","o","n","e">>), Str(<<"t","e","x","t">>), Num(<<"0",".","5">>))
        again == Entry(Str(<<"e","m","a","i","l">>), Str(<<"p","h","o","n","e">>), Absent, Absent)
        nofn  == Entry(Absent, Str(<<"e","m","a","i","l">>), Absent, Absent)
        nouf  == Entry(Str(<<"e","m","a","i","l">>), Str(<<>>), Absent, Absent)
        bad   == Entry(Str(<<"t","e","l">>), Unsupported, Absent, Absent)
    IN  { Fields("list", <<one>>), Fields("list", <<one, two>>), Fields("list", <<one, again>>),
          Fields("list", <<nofn>>), Fields("list", <<one, nouf>>), Fields("list", <<bad, one>>),
          Fields("list", <<one, NonDict("str")>>), Fields("list", <<>>) }

\* DataService.save_form_mapping(domain, field_name, user_field, form_id,
\* field_type, confidence), the arguments drawn from `inputs`.
SaveFormMappingOver(inputs) ==
    /\ Len(form_mappings) < MaxRows
    /\ \E a \in inputs, db \in DbOutcomes :
         LET r == ServiceSaveFormMapping(form_mappings, a.domain, a.field_name,
                                         a.payload.user_field, a.form_id,
                                         a.payload.field_type, a.payload.confidence, db)
         IN  /\ form_mappings' = r.table
             /\ reply' = [op |-> "save_form_mapping", domain |-> a.domain,
                          form_id |-> a.form_id, field_name |-> a.field_name,
                          payload |-> a.payload, db |-> db, ret |-> r.ok]
    /\ UNCHANGED <<rag_enabled, qa, call, user_table, user_data, saved, driverVars, launchVars, profileVars>>

SaveFormMapping == SaveFormMappingOver(AllMappings)

SaveOneFormMapping == SaveFormMappingOver(FewMappings)

\* The form ids of a fetch: none, an empty one, and one of a form.
FetchFormIds == FormIds \cup {Str(<<>>)}

\* DataService.get_form_mappings(domain, form_id)
GetFormMappings ==
    /\ \E domain \in Domains, form_id \in FetchFormIds, db \in DbOutcomes :
         reply' = [op |-> "get_form_mappings", domain |-> domain, form_id |-> form_id,
                   db |-> db,
                   ret |-> ServiceGetFormMappings(form_mappings, domain, form_id, db)]
    /\ UNCHANGED <<rag_enabled, qa, call, user_table, user_data, storeVars, driverVars, launchVars, profileVars>>

\* DataService.bulk_save_form_mappings(domain, mappings, form_id)
BulkSaveFormMappings ==
    /\ \E domain \in Domains, mappings \in BulkLists, form_id \in FormIds :
         /\ Len(form_mappings) + Len(mappings.items) <= MaxRows
         /\ \E dbs \in [1..Len(mappings.items) -> DbOutcomes] :
              LET r == ServiceBulkSaveFormMappings(form_mappings, domain, mappings, form_id, dbs)
              IN  /\ form_mappings' = r.table
                  /\ reply' = [op |-> "bulk_save_form_mappings", domain |-> domain,
                               mappings |-> mappings, form_id |-> form_id, dbs |-> dbs,
                               calls |-> r.calls, ret |-> r.ok]
    /\ UNCHANGED <<rag_enabled, qa, call, user_table, user_data, saved, driverVars, launchVars, profileVars>>

NextMappings ==
    \/ SaveFormMapping
    \/ GetFormMappings
    \/ BulkSaveFormMappings

\* The server after start-up: the interpreter constructed, the tables empty.
InitData ==
    /\ rag_enabled = FALSE
    /\ qa = FALSE
    /\ call = Idle
    /\ user_table = {}
    /\ user_data = NoUserData
    /\ reply = NoReply
    /\ InitStore
    /\ InitDriver
    /\ NoLaunch
    /\ NoProfile

NextData ==
    \/ SaveUserData
    \/ GetUserData
    \/ SaveOneFormMapping

SpecData == InitData /\ [][NextData]_vars

SpecMappings == InitData /\ [][NextMappings]_vars

\* UserData.from_dict(user_id, data)
UserDataFromDict ==
    /\ \E u \in UserIds, d \in ModelDicts :
         /\ user_data' = FromDict(u, d)
         /\ reply' = [op |-> "from_dict", data |-> d]
    /\ UNCHANGED <<rag_enabled, qa, call, user_table, storeVars, driverVars, launchVars, profileVars>>

\* user_data.update(data)
UserDataUpdate ==
    /\ user_data.live
    /\ \E d \in ModelDicts :
         /\ user_data' = Update(user_data, d)
         /\ reply' = [op |-> "update", data |-> d]
    /\ UNCHANGED <<rag_enabled, qa, call, user_table, storeVars, driverVars, launchVars, profileVars>>

\* user_data.to_dict()
UserDataToDict ==
    /\ user_data.live
    /\ reply' = [op |-> "to_dict", data |-> <<>>, ret |-> ToDict(user_data)]
    /\ UNCHANGED <<rag_enabled, qa, call, user_table, user_data, storeVars, driverVars, launchVars, profileVars>>

NextUserData ==
    \/ UserDataFromDict
    \/ UserDataUpdate
    \/ UserDataToDict

SpecUserData == InitData /\ [][NextUserData]_vars

\* ------------------------------------------------------- data layer: claims

\* A successful save of `reply.data` for a user, directly followed by a fetch for
\* the same user that reads the database without failure.
SaveThenGet ==
    /\ reply.op = "save_user_data"
    /\ reply.ret
    /\ reply'.op = "get_user_data"
    /\ reply'.user_id = reply.user_id
    /\ reply'.db = "ok"

\* d without its keys that hold null
WithoutNulls(d) == [k \in {k \in DOMAIN d : d[k] # None} |-> d[k]]

\* C9 as stated: a successful save_user_data(u, d) followed by get_user_data(u)
\* returns a dictionary with the keys and values of d, also when d holds nulls.
C9_RoundTripAsClaimed ==
    [][SaveThenGet => reply'.ret = reply.data]_vars

\* C9, amended: the fetch returns d without its null-valued keys (to_dict drops
\* them); known and unknown keys with a value come back unchanged.
C9_RoundTripWithoutNulls ==
    [][SaveThenGet => reply'.ret = WithoutNulls(reply.data)]_vars

\* A fetch that returns a stored profile with a known and an unknown key.
C9_Witness ==
    /\ reply.op = "get_user_data"
    /\ reply.db = "ok"
    /\ DOMAIN reply.ret = {"email", "nickname"}
    /\ \E r \in user_table : r.id = reply.user_id

\* The known attributes of the instance hold the known keys of the last input.
KnownKeysLand ==
    \A k \in DOMAIN reply.data \cap KnownFields : user_data[k] = reply.data[k]

\* The unknown keys of the last input among `keys` are custom fields.
UnknownKeysLand(keys) ==
    \A k \in keys \ KnownFields :
        /\ k \in DOMAIN user_data.custom_fields
        /\ user_data.custom_fields[k] = reply.data[k]

Disjoint == DOMAIN user_data.custom_fields \cap KnownFields = {}

SameKey(r, domain, form_id, field_name) ==
    r.domain = domain /\ r.form_id = form_id /\ r.field_name = field_name

\* The stored rows of a key.
RowsOf(domain, form_id, field_name) ==
    LET ofKey(r) == SameKey(r, domain, form_id, field_name)
    IN  SelectSeq(form_mappings, ofKey)

\* C11: after any sequence of save_form_mapping calls there is at most one
\* stored record per (domain, form_id, field_name), also for a form_id that is
\* NULL, and after a successful save the record of its key carries the
\* user_field, field_type and confidence of that save, so that a fetch of the
\* domain returns one mapping for the key, the last one saved.
C11_OneRecordPerKey ==
    /\ \A i, j \in 1..Len(form_mappings) :
         SameKey(form_mappings[i], form_mappings[j].domain, form_mappings[j].form_id,
                 form_mappings[j].field_name) => i = j
    /\ (reply.op = "save_form_mapping" /\ reply.ret)
       => /\ RowsOf(reply.domain, reply.form_id, reply.field_name)
               = << MappingRow(reply.domain, reply.form_id, reply.field_name,
                               reply.payload.field_type, reply.payload.user_field,
                               reply.payload.confidence) >>
          /\ Len(ServiceGetFormMappings(form_mappings, reply.domain, reply.form_id, "ok")) = 1

\* The rows of table user_data that hold a user id.
Profile(table, u) == {r \in table : r.id = u}

\* Storage holds one profile record for each user id that was saved, none for
\* the others.
OneRecordPerUser ==
    \A u \in UserIds :
        Cardinality(Profile(user_table, u)) = IF u \in DOMAIN saved THEN 1 ELSE 0

\* A fetch that reads the database returns Content(d), d the dictionary of the
\* most recent successful save for the user.
FetchReturns(Content(_)) ==
    (/\ reply.op = "get_user_data"
     /\ reply.db = "ok"
     /\ reply.user_id \in DOMAIN saved)
    => reply.ret = Content(saved[reply.user_id])

\* A save for a user leaves the records of the other users and the stored
\* mappings as they were.
SaveFrame ==
    reply'.op = "save_user_data"
    => /\ \A u \in UserIds \ {reply'.user_id} : Profile(user_table', u) = Profile(user_table, u)
       /\ form_mappings' = form_mappings

AsSaved(d) == d

\* C12 as stated: one profile record per saved user id; get_user_data(u) returns
\* the dictionary of the most recent successful save for u, in full and not
\* merged with earlier ones; a save for u changes no other profile and no
\* stored mapping.
C12_LastSaveInFull ==
    /\ [](OneRecordPerUser /\ FetchReturns(AsSaved))
    /\ [][SaveFrame]_vars

\* C12, amended: what the fetch returns is the dictionary of the most recent
\* successful save without its null-valued keys.
C12_LastSaveWithoutNulls ==
    /\ [](OneRecordPerUser /\ FetchReturns(WithoutNulls))
    /\ [][SaveFrame]_vars

\* A fetch for one of two users with a stored profile, a mapping being stored.
C12_Witness ==
    /\ reply.op = "get_user_data"
    /\ reply.db = "ok"
    /\ reply.ret # <<>>
    /\ DOMAIN saved = UserIds
    /\ \E u \in UserIds : saved[u] # saved[reply.user_id]
    /\ form_mappings # <<>>

\* C20: when bulk_save_form_mappings returns True, every entry of the list is
\* stored: a following get_form_mappings of the domain returns, for each entry,
\* a mapping with its field_name and user_field; this includes the entries
\* that lack field_name or user_field.
C20_TrueMeansAllStored ==
    (reply.op = "bulk_save_form_mappings" /\ reply.ret)
    => LET got == ServiceGetFormMappings(form_mappings, reply.domain, None, "ok")
       IN  \A i \in 1..Len(reply.mappings.items) :
             \E k \in 1..Len(got) :
                /\ got[k].field_name = Get(reply.mappings.items[i].field_name, None)
                /\ got[k].user_field = Get(reply.mappings.items[i].user_field, None)

\* ----------------------------------------------------------- HTTP API: handlers

\* (server/api/routes.py; server/server.py registers the two /data handlers a
\* second time at the root, with the same bodies.)

\* What request.get_json() hands to a handler: t = "dict" with the object's
\* members in body ("emptydict" for {}), a value that is no object ("none" for
\* null or no body at all, "list", "emptylist", "str", "emptystr", "num",
\* "zero"), or "raise" when get_json itself raises (a body that is no JSON).
Payload(t, body) == [t |-> t, body |-> body]

\* isinstance(payload, dict)
IsDict(p) == p.t \in {"dict", "emptydict"}

\* not payload
NotPayload(p) == p.t \in {"none", "emptylist", "emptystr", "zero", "emptydict"}

\* jsonify({"error": message})
ErrorBody(message) == [kind |-> "error", value |-> message]

\* jsonify({"status": "success"})
StatusSuccess == [kind |-> "status", value |-> "success"]

\* What a handler does: the status and body of its response, the two tables
\* after it, and the calls it made to the database manager.
Handled(status, body, users, mappings, calls) ==
    [status |-> status, body |-> body, user_table |-> users,
     form_mappings |-> mappings, calls |-> calls]

\* A handler whose try block raised at once: its except clause answers 500.
Caught(message, users, mappings) ==
    Handled(500, ErrorBody(message), users, mappings, <<>>)

\* GET /data: get_user_data(). `svc` is how the injected data service fares:
\* "ok", or "raise" when calling it raises (data_service not initialised).
GetDataRoute(users, mappings, user_id, db, svc) ==
    IF svc = "raise" THEN Caught("Failed to retrieve user data", users, mappings)
    ELSE Handled(200, [kind |-> "profile", value |-> ServiceGetUserData(users, user_id, db)],
                 users, mappings, <<DbCall(1, db = "ok")>>)

\* POST /data: save_user_data()
PostDataRoute(users, mappings, user_id, p, db, svc) ==
    IF p.t = "raise" THEN Caught("Failed to save user data", users, mappings)
    ELSE IF ~IsDict(p)
    THEN Handled(400, ErrorBody("Invalid data format"), users, mappings, <<>>)
    ELSE IF svc = "raise" THEN Caught("Failed to save user data", users, mappings)
    ELSE LET r == ServiceSaveUserData(users, user_id, p.body, db)
         IN  IF r.ok
             THEN Handled(200, StatusSuccess, r.table, mappings, <<DbCall(1, TRUE)>>)
             ELSE Handled(500, ErrorBody("Failed to save user data"), r.table, mappings,
                          <<DbCall(1, FALSE)>>)

\* The object request.get_json() gave, as interpret_form reads it: {} has no
\* member 'fields'.
FormData(p) ==
    IF p.t = "emptydict" THEN [fields |-> Fields("absent", <<>>)] ELSE p.body

\* A plausible slip: only the type of the payload is tested, so that {} goes
\* to the interpreter.
PostInterpretRouteAnyObject(users, mappings, p, oracle) ==
    IF p.t = "raise" THEN Caught("Failed to interpret form", users, mappings)
    ELSE IF ~IsDict(p)
    THEN Handled(400, ErrorBody("Invalid form data"), users, mappings, <<>>)
    ELSE LET r == InterpretForm(FormData(p), oracle)
         IN  IF r.raised THEN Caught("Failed to interpret form", users, mappings)
             ELSE Handled(200,
                          [kind |-> "interpretation",
                           value |-> [mappings |-> r.mappings, confidence |-> r.confidence],
                           log |-> r.log],
                          users, mappings, <<>>)

\* POST /interpret: interpret_form(); the RAG chain answers with `oracle`.
PostInterpretRoute(users, mappings, p, oracle) ==
    IF p.t = "raise" THEN Caught("Failed to interpret form", users, mappings)
    ELSE IF NotPayload(p) \/ ~IsDict(p)
    THEN Handled(400, ErrorBody("Invalid form data"), users, mappings, <<>>)
    ELSE LET r == InterpretForm(p.body, oracle)
         IN  IF r.raised THEN Caught("Failed to interpret form", users, mappings)
             ELSE Handled(200,
                          [kind |-> "interpretation",
                           value |-> [mappings |-> r.mappings, confidence |-> r.confidence],
                           log |-> r.log],
                          users, mappings, <<>>)

\* GET /mappings: get_form_mappings(); domain and form_id are query parameters
\* (None when not given).
GetMappingsRoute(users, mappings, domain, form_id, db, svc) ==
    IF ~Bool(domain)
    THEN Handled(400, ErrorBody("Domain parameter is required"), users, mappings, <<>>)
    ELSE IF svc = "raise" THEN Caught("Failed to retrieve form mappings", users, mappings)
    ELSE Handled(200,
                 [kind |-> "mappings",
                  value |-> ServiceGetFormMappings(mappings, domain, form_id, db)],
                 users, mappings,
                 <<DbCall(1, DbGetFormMappings(mappings, domain, form_id, db).ok)>>)

\* A plausible slip: no try/except around the handler's body, so the
\* AttributeError of .get on a payload that is no object leaves the handler.
PostMappingsRouteNoCatch(users, mappings, p, db, svc) ==
    IF p.t = "raise" THEN Caught("Failed to save form mapping", users, mappings)
    ELSE IF NotPayload(p)
    THEN Handled(400, ErrorBody("No mapping data provided"), users, mappings, <<>>)
    ELSE IF ~IsDict(p)
    THEN Handled(0, [kind |-> "exception", value |-> "AttributeError"], users, mappings, <<>>)
    ELSE LET domain     == Get(p.body.domain, None)
             field_name == Get(p.body.field_name, None)
             user_field == Get(p.body.user_field, None)
         IN  IF ~Bool(domain) \/ ~Bool(field_name) \/ ~Bool(user_field)
             THEN Handled(400, ErrorBody("Missing required fields"), users, mappings, <<>>)
             ELSE IF svc = "raise" THEN Caught("Failed to save form mapping", users, mappings)
             ELSE LET r == ServiceSaveFormMapping(mappings, domain, field_name, user_field,
                                                  Get(p.body.form_id, None),
                                                  Get(p.body.field_type, None),
                                                  Get(p.body.confidence, Num(<<"1",".","0">>)), db)
                  IN  IF r.ok
                      THEN Handled(200, StatusSuccess, users, r.table, <<DbCall(1, TRUE)>>)
                      ELSE Handled(500, ErrorBody("Failed to save mapping"), users, r.table,
                                   <<DbCall(1, FALSE)>>)

\* POST /mappings: save_form_mapping(); mapping_data.get on a list, a str or a
\* number is an AttributeError, caught by the except clause.
PostMappingsRoute(users, mappings, p, db, svc) ==
    IF p.t = "raise" THEN Caught("Failed to save form mapping", users, mappings)
    ELSE IF NotPayload(p)
    THEN Handled(400, ErrorBody("No mapping data provided"), users, mappings, <<>>)
    ELSE IF ~IsDict(p) THEN Caught("Failed to save form mapping", users, mappings)
    ELSE LET domain     == Get(p.body.domain, None)
             field_name == Get(p.body.field_name, None)
             user_field == Get(p.body.user_field, None)
         IN  IF ~Bool(domain) \/ ~Bool(field_name) \/ ~Bool(user_field)
             THEN Handled(400, ErrorBody("Missing required fields"), users, mappings, <<>>)
             ELSE IF svc = "raise" THEN Caught("Failed to save form mapping", users, mappings)
             ELSE LET r == ServiceSaveFormMapping(mappings, domain, field_name, user_field,
                                                  Get(p.body.form_id, None),
                                                  Get(p.body.field_type, None),
                                                  Get(p.body.confidence, Num(<<"1",".","0">>)), db)
                  IN  IF r.ok
                      THEN Handled(200, StatusSuccess, users, r.table, <<DbCall(1, TRUE)>>)
                      ELSE Handled(500, ErrorBody("Failed to save mapping"), users, r.table,
                                   <<DbCall(1, FALSE)>>)

\* POST /mappings/bulk: save_bulk_mappings(); dbs[i] is how the database fares
\* at the i-th element of the list.
PostBulkRoute(users, mappings, p, dbs, svc) ==
    IF p.t = "raise" THEN Caught("Failed to save bulk mappings", users, mappings)
    ELSE IF NotPayload(p)
    THEN Handled(400, ErrorBody("No data provided"), users, mappings, <<>>)
    ELSE IF ~IsDict(p) THEN Caught("Failed to save bulk mappings", users, mappings)
    ELSE LET domain == Get(p.body.domain, None)
             list   == Get(p.body.mappings, Fields("list", <<>>))
         IN  IF ~Bool(domain) \/ Falsy(list)
             THEN Handled(400, ErrorBody("Missing required fields"), users, mappings, <<>>)
             ELSE IF svc = "raise" THEN Caught("Failed to save bulk mappings", users, mappings)
             ELSE LET r == ServiceBulkSaveFormMappings(mappings, domain, list,
                                                       Get(p.body.form_id, None), dbs)
                  IN  IF r.ok
                      THEN Handled(200, StatusSuccess, users, r.table, r.calls)
                      ELSE Handled(500, ErrorBody("Failed to save some mappings"), users,
                                   r.table, r.calls)

\* ------------------------------------------------------ HTTP API: inputs, actions

\* The user a request names (user_id, 'default' when not given).
ApiUsers == {1}

\* Payloads that are no JSON object, and a body get_json cannot parse.
NonObjects ==
    {Payload(t, <<>>) : t \in {"none", "list", "emptylist", "str", "emptystr", "num", "zero", "raise"}}

EmptyObject == Payload("emptydict", <<>>)

DataPayloads ==
    NonObjects \cup {EmptyObject, Payload("dict", [email |-> Str(<<"a","@","b",".","c">>)])}

\* Forms of one field, an object without 'fields', and 'fields' that is a number.
InterpretPayloads ==
    NonObjects \cup {EmptyObject}
        \cup {Payload("dict", [fields |-> Fields("list", <<f>>)]) : f \in FormFieldSet}
        \cup {Payload("dict", [fields |-> Fields(t, <<>>)]) : t \in {"absent", "num"}}

\* The object of a POST /mappings request (Absent for a member it lacks).
MappingBody(domain, field_name, user_field, form_id) ==
    [domain |-> domain, field_name |-> field_name, user_field |-> user_field,
     form_id |-> form_id, field_type |-> Absent, confidence |-> Absent]

\* Complete objects (one with a user_field that cannot be stored), and objects
\* that lack domain, field_name or user_field.
MappingPayloads ==
    NonObjects \cup {EmptyObject}
        \cup {Payload("dict", MappingBody(Str(<<"a",".","c","o","m">>), Str(<<"e","m","a","i","l">>), user_field, form_id)) :
                user_field \in {Str(<<"e","m","a","i","l">>), Str(<<"p","h","o","n","e">>), Unsupported},
                form_id \in {Absent, Str(<<"f","1">>)}}
        \cup {Payload("dict", MappingBody(Absent, Str(<<"e","m","a","i","l">>), Str(<<"e","m","a","i","l">>), Absent)),
              Payload("dict", MappingBody(Str(<<"a",".","c","o","m">>), Absent, Str(<<"e","m","a","i","l">>), Absent)),
              Payload("dict", MappingBody(Str(<<"a",".","c","o","m">>), Str(<<"e","m","a","i","l">>), Absent, Absent))}

\* The lists of a bulk request: a complete entry, one that cannot be stored
\* before one that can, an entry without field_name, an element that is no
\* object after an entry, and the empty list.
ApiBulkLists ==
    LET one  == Entry(Str(<<"e","m","a","i","l">>), Str(<<"e","m","a","i","l">>), Absent, Absent)
        nofn == Entry(Absent, Str(<<"e","m","a","i","l">>), Absent, Absent)
        bad  == Entry(Str(<<"e","m","a","i","l">>), Unsupported, Absent, Absent)
    IN  { Fields("list", <<one>>), Fields("list", <<bad, one>>), Fields("list", <<nofn>>),
          Fields("list", <<one, NonDict("str")>>), Fields("list", <<>>) }

\* 'mappings' of a bulk request: a list, a missing key, a str, a number, an object.
BulkPayloads ==
    NonObjects \cup {EmptyObject}
        \cup {Payload("dict", [domain |-> Str(<<"a",".","c","o","m">>), form_id |-> Absent, mappings |-> l]) :
                l \in ApiBulkLists \cup {Fields(t, <<>>) : t \in {"absent", "str", "num", "dict"}}}
        \cup {Payload("dict", [domain |-> Absent, form_id |-> Absent,
                               mappings |-> Fields("list", <<Entry(Str(<<"e","m","a","i","l">>), Str(<<"e","m","a","i","l">>), Absent, Absent)>>)])}

ServiceOutcomes == {"ok", "raise"}

\* The handler's effect on the tables, and the request and its response.
Respond(op, request, h) ==
    /\ user_table' = h.user_table
    /\ form_mappings' = h.form_mappings
    /\ reply' = [op |-> op, request |-> request, status |-> h.status,
                 body |-> h.body, calls |-> h.calls]

GetData ==
    /\ \E u \in ApiUsers, db \in DbOutcomes, svc \in ServiceOutcomes :
         Respond("GET /data", [user_id |-> u],
                 GetDataRoute(user_table, form_mappings, u, db, svc))
    /\ UNCHANGED <<rag_enabled, qa, call, user_data, saved, driverVars, launchVars, profileVars>>

PostData ==
    /\ \E u \in ApiUsers, p \in DataPayloads, db \in DbOutcomes, svc \in ServiceOutcomes :
         LET h == PostDataRoute(user_table, form_mappings, u, p, db, svc)
         IN  /\ Respond("POST /data", [user_id |-> u, payload |-> p], h)
             /\ saved' = IF h.status = 200 THEN (u :> p.body) @@ saved ELSE saved
    /\ UNCHANGED <<rag_enabled, qa, call, user_data, driverVars, launchVars, profileVars>>

PostInterpret ==
    /\ \E p \in InterpretPayloads :
         \E oracle \in (IF p.t = "dict" THEN Oracles(p.body) ELSE {<<>>}) :
             Respond("POST /interpret", [payload |-> p],
                     PostInterpretRoute(user_table, form_mappings, p, oracle))
    /\ UNCHANGED <<rag_enabled, qa, call, user_data, saved, driverVars, launchVars, profileVars>>

GetMappings ==
    /\ \E domain \in {None, Empty, Str(<<"a",".","c","o","m">>)}, form_id \in FormIds,
          db \in DbOutcomes, svc \in ServiceOutcomes :
         Respond("GET /mappings", [domain |-> domain, form_id |-> form_id],
                 GetMappingsRoute(user_table, form_mappings, domain, form_id, db, svc))
    /\ UNCHANGED <<rag_enabled, qa, call, user_data, saved, driverVars, launchVars, profileVars>>

PostMappings ==
    /\ Len(form_mappings) < MaxRows
    /\ \E p \in MappingPayloads, db \in DbOutcomes, svc \in ServiceOutcomes :
         Respond("POST /mappings", [payload |-> p],
                 PostMappingsRoute(user_table, form_mappings, p, db, svc))
    /\ UNCHANGED <<rag_enabled, qa, call, user_data, saved, driverVars, launchVars, profileVars>>

PostBulk ==
    /\ \E p \in BulkPayloads, svc \in ServiceOutcomes :
         LET n == IF p.t = "dict" THEN Len(p.body.mappings.items) ELSE 0
         IN  /\ Len(form_mappings) + n <= MaxRows
             /\ \E dbs \in [1..n -> DbOutcomes] :
                  Respond("POST /mappings/bulk", [payload |-> p],
                          PostBulkRoute(user_table, form_mappings, p, dbs, svc))
    /\ UNCHANGED <<rag_enabled, qa, call, user_data, saved, driverVars, launchVars, profileVars>>

NextApi ==
    \/ GetData
    \/ PostData
    \/ PostInterpret
    \/ GetMappings
    \/ PostMappings
    \/ PostBulk

\* The server: the interpreter constructed with or without RAG, the tables empty.
SpecApi == InitInterp /\ [][NextApi]_vars

\* ------------------------------------------------------------- HTTP API: claims

PostOps == {"POST /data", "POST /interpret", "POST /mappings", "POST /mappings/bulk"}

ApiOps == PostOps \cup {"GET /data", "GET /mappings"}

\* The payload is no JSON object: null or missing, an array, a string, a number.
NotAnObject(p) == p.t \in {"none", "list", "emptylist", "str", "emptystr", "num", "zero"}

\* The payload is an object that lacks a field its endpoint requires: domain,
\* field_name and user_field for /mappings; domain and a non-empty list under
\* mappings for /mappings/bulk.
LacksRequired(op, p) ==
    /\ IsDict(p)
    /\ \/ /\ op = "POST /mappings"
          /\ \/ p.t = "emptydict"
             \/ Absent \in {p.body.domain, p.body.field_name, p.body.user_field}
       \/ /\ op = "POST /mappings/bulk"
          /\ \/ p.t = "emptydict"
             \/ p.body.domain = Absent
             \/ p.body.mappings.t # "list"
             \/ p.body.mappings.items = <<>>

InvalidRequest(r) ==
    \/ /\ r.op \in PostOps
       /\ NotAnObject(r.request.payload) \/ LacksRequired(r.op, r.request.payload)
    \/ /\ r.op = "GET /mappings"
       /\ r.request.domain = None

Answered400 == reply.status = 400 /\ reply.body.kind = "error"

\* C13: a POST to /data, /interpret, /mappings or /mappings/bulk whose payload
\* is missing, is no JSON object or lacks a required field is answered with
\* status 400 and an error body and changes neither table; GET /mappings
\* without a domain is answered with 400.
C13_InvalidPayloadIs400 ==
    /\ [](InvalidRequest(reply) => Answered400)
    /\ [][InvalidRequest(reply') => UNCHANGED <<user_table, form_mappings>>]_vars

\* A call to the database manager made for the request failed.
StorageFailed(r) == \E i \in 1..Len(r.calls) : ~r.calls[i].ok

\* C14: a request during which the storage layer failed is answered with
\* status 500 and an error body; GET /data and GET /mappings included.
C14_StorageFailureIs500 ==
    reply.op \in ApiOps /\ StorageFailed(reply)
        => reply.status = 500 /\ reply.body.kind = "error"

\* The shape of a handler's success response.
SuccessKind(op) ==
    CASE op = "GET /data" -> "profile"
      [] op = "POST /interpret" -> "interpretation"
      [] op = "GET /mappings" -> "mappings"
      [] OTHER -> "status"

\* The response is the success shape of its endpoint or an error body with
\* status 400 or 500.
ResponseShape ==
    reply.op \in ApiOps =>
        \/ reply.status = 200 /\ reply.body.kind = SuccessKind(reply.op)
        \/ reply.status \in {400, 500} /\ reply.body.kind = "error"

\* The next state is the response to a request that failed.
FailedRequest == reply'.op \in ApiOps /\ reply'.status # 200

\* A row stored by the bulk request r: its domain and form_id, and the
\* field_name and user_field of an entry of its list.
RowOfRequest(row, r) ==
    LET b == r.request.payload.body
    IN  /\ row.domain = b.domain
        /\ row.form_id = Get(b.form_id, None)
        /\ \E i \in 1..Len(b.mappings.items) :
             /\ b.mappings.items[i].kind = "dict"
             /\ row.field_name = b.mappings.items[i].field_name
             /\ row.user_field = b.mappings.items[i].user_field

\* The table differs from the one before the bulk request r only in rows r
\* stored and in rows those replaced.
OnlyEntriesSaved(before, after, r) ==
    /\ r.op = "POST /mappings/bulk"
    /\ \A j \in 1..Len(after) :
         \/ \E i \in 1..Len(before) : before[i] = after[j]
         \/ RowOfRequest(after[j], r)
    /\ \A i \in 1..Len(before) :
         \/ \E j \in 1..Len(after) : before[i] = after[j]
         \/ \E j \in 1..Len(after) :
              /\ RowOfRequest(after[j], r)
              /\ SameKey(before[i], after[j].domain, after[j].form_id, after[j].field_name)

\* C15 (as claimed): every response has the success shape or is an error with
\* status 400 or 500, and a failed request leaves the interpreter and both
\* tables as they were.
C15_FailedRequestChangesNothing ==
    /\ []ResponseShape
    /\ [][FailedRequest => UNCHANGED <<rag_enabled, qa, user_table, form_mappings>>]_vars

\* C15 (amended): every response has the success shape or is an error with
\* status 400 or 500; a failed request leaves the interpreter and the profiles
\* as they were, and the mappings too, except that a failed POST /mappings/bulk
\* may have stored entries of its list.
C15_FailedRequestExceptBulk ==
    /\ []ResponseShape
    /\ [][FailedRequest =>
            /\ UNCHANGED <<rag_enabled, qa, user_table>>
            /\ \/ UNCHANGED form_mappings
               \/ OnlyEntriesSaved(form_mappings, form_mappings', reply')]_vars

\* A bulk request answered 500 after which a mapping of its list is stored, and
\* a profile is stored that the request left alone.
C15_Witness ==
    /\ reply.op = "POST /mappings/bulk"
    /\ reply.status = 500
    /\ \E i \in 1..Len(reply.calls) : reply.calls[i].ok
    /\ \E j \in 1..Len(form_mappings) : RowOfRequest(form_mappings[j], reply)
    /\ user_table # {}

\* -------------------------------------------------------------- browser driver

\* (src/browsers/safari_auto_filler.py; BrowserAutoFiller in
\* browser_auto_filler.py has the same start, stop, _scan_for_inputs and
\* _fill_input, without the test mode and the data: URLs.)

\* Number of form elements a page holds.
NumElements == 2

\* The ids of the elements (WebElement.id), in the order of all_elements.
ElementIds == 1..NumElements

\* A plausible slip: stop() without the `if not self.running: return` guard.
StopNoGuard(is_running, quits) == [running |-> FALSE, quit_calls |-> quits + 1]

\* stop(): nothing when not running; else running = False and driver.quit(),
\* whose failure is logged.
Stop(is_running, quits) ==
    IF ~is_running THEN [running |-> is_running, quit_calls |-> quits]
    ELSE [running |-> FALSE, quit_calls |-> quits + 1]

\* An element as a scan meets it: in the page or not, is_displayed() (FALSE
\* also when it raises), and what _fill_input does with it.
Element(found, displayed, fill) == [found |-> found, displayed |-> displayed, fill |-> fill]

\* _fill_input: True when the element was filled; False for an input type
\* that is passed over, an element that is not interactable, any other error.
FillInput(element) == element.fill = "filled"

\* One call of _fill_input in a scan: the element, what the call returned, and
\* whether the element was displayed.
Attempt(id, ok, displayed) == [element |-> id, ok |-> ok, displayed |-> displayed]

RECURSIVE ScanLoopNoSkip(_, _, _, _, _)
\* A plausible slip: filled elements are not passed over.
ScanLoopNoSkip(page, hidden_too, i, filled, attempts) ==
    IF i > Len(page) THEN [filled_inputs |-> filled, attempts |-> attempts]
    ELSE IF ~page[i].found
    THEN ScanLoopNoSkip(page, hidden_too, i + 1, filled, attempts)
    ELSE IF ~hidden_too /\ ~page[i].displayed
    THEN ScanLoopNoSkip(page, hidden_too, i + 1, filled, attempts)
    ELSE IF FillInput(page[i])
    THEN ScanLoopNoSkip(page, hidden_too, i + 1, filled \cup {i}, Append(attempts, Attempt(i, TRUE, page[i].displayed)))
    ELSE ScanLoopNoSkip(page, hidden_too, i + 1, filled, Append(attempts, Attempt(i, FALSE, page[i].displayed)))

RECURSIVE ScanLoopAnyElement(_, _, _, _, _)
\* A plausible slip: is_displayed() is not consulted.
ScanLoopAnyElement(page, hidden_too, i, filled, attempts) ==
    IF i > Len(page) THEN [filled_inputs |-> filled, attempts |-> attempts]
    ELSE IF ~page[i].found
    THEN ScanLoopAnyElement(page, hidden_too, i + 1, filled, attempts)
    ELSE IF i \in filled
    THEN ScanLoopAnyElement(page, hidden_too, i + 1, filled, attempts)
    ELSE IF FillInput(page[i])
    THEN ScanLoopAnyElement(page, hidden_too, i + 1, filled \cup {i},
                            Append(attempts, Attempt(i, TRUE, page[i].displayed)))
    ELSE ScanLoopAnyElement(page, hidden_too, i + 1, filled,
                            Append(attempts, Attempt(i, FALSE, page[i].displayed)))

RECURSIVE ScanLoop(_, _, _, _, _)
\* The loop of _scan_for_inputs over all_elements from element i on: an element
\* in filled_inputs is passed over, as is one that is not displayed unless
\* fill_hidden_inputs; the id is added to filled_inputs when _fill_input
\* returns True.
ScanLoop(page, hidden_too, i, filled, attempts) ==
    IF i > Len(page) THEN [filled_inputs |-> filled, attempts |-> attempts]
    ELSE IF ~page[i].found
    THEN ScanLoop(page, hidden_too, i + 1, filled, attempts)
    ELSE IF i \in filled
    THEN ScanLoop(page, hidden_too, i + 1, filled, attempts)
    ELSE IF ~hidden_too /\ ~page[i].displayed
    THEN ScanLoop(page, hidden_too, i + 1, filled, attempts)
    ELSE IF FillInput(page[i])
    THEN ScanLoop(page, hidden_too, i + 1, filled \cup {i}, Append(attempts, Attempt(i, TRUE, page[i].displayed)))
    ELSE ScanLoop(page, hidden_too, i + 1, filled, Append(attempts, Attempt(i, FALSE, page[i].displayed)))

\* _scan_for_inputs: [filled_inputs, attempts]; a failure of find_elements
\* leaves the scan without elements.
ScanForInputs(page, hidden_too, filled) == ScanLoop(page, hidden_too, 1, filled, <<>>)

\* What the last step of the driver did, with the fills a scan attempted.
Event(kind, attempts) == [kind |-> kind, attempts |-> attempts]

\* ------------------------------------------------------ browser driver: actions

\* The states of one element at a scan.
ElementStates ==
    {Element(FALSE, FALSE, "none")}
        \cup {Element(TRUE, d, f) : d \in BOOLEAN, f \in {"filled", "false"}}

Pages == [ElementIds -> ElementStates]

\* How reading driver.current_url ends: a URL that is scanned, one that is not
\* (empty, about:, data:), a WebDriverException saying 'target window already
\* closed', another WebDriverException, an exception of another class.
UrlOutcomes == {"page", "blank", "closed", "webdriver_error", "exception"}

\* How the rest of the iteration ends: time.sleep returns, or a
\* KeyboardInterrupt arrives first.
SleepOutcomes == {"slept", "interrupt"}

\* The caller sets fill_hidden_inputs on the new object.
SetFillHidden ==
    /\ pc = "new"
    /\ fill_hidden_inputs' \in BOOLEAN
    /\ UNCHANGED <<running, filled_inputs, pc, quit_calls, slept, failed, event>>
    /\ UNCHANGED <<serverVars, storeVars, launchVars, profileVars>>

\* start() up to the loop; in test mode a failure to open the test file calls
\* stop() and returns.
Start ==
    /\ pc = "new"
    /\ \E test \in {"off", "opened", "failed"} :
         IF test = "failed"
         THEN LET s == Stop(TRUE, quit_calls)
              IN  /\ running' = s.running
                  /\ quit_calls' = s.quit_calls
                  /\ pc' = "returned"
                  /\ event' = Event("test_failed", <<>>)
         ELSE /\ running' = TRUE
              /\ pc' = "loop"
              /\ event' = Event("start", <<>>)
              /\ UNCHANGED quit_calls
    /\ UNCHANGED <<filled_inputs, fill_hidden_inputs, slept, failed>>
    /\ UNCHANGED <<serverVars, storeVars, launchVars, profileVars>>

\* The loop is left (break, KeyboardInterrupt, unexpected exception) and the
\* finally clause calls stop().
Leave(kind, attempts) ==
    LET s == Stop(running, quit_calls)
    IN  /\ running' = s.running
        /\ quit_calls' = s.quit_calls
        /\ pc' = "returned"
        /\ event' = Event(kind, attempts)

\* One iteration of `while self.running`.
Iterate ==
    /\ pc = "loop"
    /\ running
    /\ \E url \in UrlOutcomes, page \in Pages, sleep \in SleepOutcomes :
         LET scan == IF url = "page"
                     THEN ScanForInputs(page, fill_hidden_inputs, filled_inputs)
                     ELSE [filled_inputs |-> filled_inputs, attempts |-> <<>>]
             misses == {scan.attempts[i].element : i \in {j \in 1..Len(scan.attempts) : ~scan.attempts[j].ok}}
         IN  CASE url = "closed" ->
                    /\ Leave("closed", <<>>)
                    /\ slept' = FALSE
                    /\ UNCHANGED <<filled_inputs, failed>>
               [] url = "exception" ->
                    /\ Leave("exception", <<>>)
                    /\ slept' = FALSE
                    /\ UNCHANGED <<filled_inputs, failed>>
               [] url = "webdriver_error" ->
                    /\ event' = Event("error", <<>>)
                    /\ slept' = FALSE
                    /\ UNCHANGED <<running, quit_calls, pc, filled_inputs, failed>>
               [] OTHER ->
                    /\ filled_inputs' = scan.filled_inputs
                    /\ failed' = failed \cup misses
                    /\ IF sleep = "slept"
                       THEN /\ event' = Event(IF url = "page" THEN "scan" ELSE "blank", scan.attempts)
                            /\ slept' = TRUE
                            /\ UNCHANGED <<running, quit_calls, pc>>
                       ELSE /\ Leave("interrupt", scan.attempts)
                            /\ slept' = FALSE
    /\ UNCHANGED fill_hidden_inputs
    /\ UNCHANGED <<serverVars, storeVars, launchVars, profileVars>>

\* `while self.running` finds running False: the finally clause calls stop().
ExitLoop ==
    /\ pc = "loop"
    /\ ~running
    /\ Leave("exit", <<>>)
    /\ UNCHANGED <<filled_inputs, fill_hidden_inputs, slept, failed>>
    /\ UNCHANGED <<serverVars, storeVars, launchVars, profileVars>>

\* stop() called from outside start(): before it, between two iterations of
\* its loop, after it.
StopCall ==
    /\ LET s == Stop(running, quit_calls)
       IN  /\ running' = s.running
           /\ quit_calls' = s.quit_calls
    /\ event' = Event("stop", <<>>)
    /\ UNCHANGED <<filled_inputs, fill_hidden_inputs, pc, slept, failed>>
    /\ UNCHANGED <<serverVars, storeVars, launchVars, profileVars>>

NextDriver ==
    \/ SetFillHidden
    \/ Start
    \/ Iterate
    \/ ExitLoop
    \/ StopCall

\* One driver object, from its construction on.
SpecDriver == InitData /\ [][NextDriver]_vars

\* ------------------------------------------------------- browser driver: claims

\* C16: when start() has returned, running is False and driver.quit() has been
\* called exactly once, however the loop ended and however often stop() was
\* called besides.
C16_CleanupOnce == pc = "returned" => ~running /\ quit_calls = 1

\* start() has returned after a stop() from outside ended the loop, and stop()
\* was called once more after that.
C16_Witness ==
    /\ pc = "returned"
    /\ event.kind = "stop"
    /\ quit_calls = 1
    /\ ~running

\* The step is an iteration of the loop (it reads the current URL).
Iteration(e) == e.kind \in {"scan", "blank", "error", "closed", "exception", "interrupt"}

\* C18: between two consecutive iterations of the loop, each of which reads
\* the page, one sleep of scan_interval has returned.
C18_SleepBetweenAccesses ==
    [][pc = "loop" /\ running /\ Iteration(event) /\ Iteration(event') => slept]_vars

\* ----------------------------------------------------- driver and server: claims

\* The driver as constructed, and the server before its first request.
DriverIdle == pc = "new" /\ ~running /\ event = NoEvent /\ ~fill_hidden_inputs

ServerIdle == reply = NoReply /\ call = Idle /\ user_table = {} /\ form_mappings = <<>>

\* The driver and the server are separate processes that share no state (the
\* driver fills with generated values and sends no request): a behaviour of the
\* toolkit is taken to follow one of them.
NextAgent ==
    \/ DriverIdle /\ NextApi
    \/ ServerIdle /\ NextDriver

SpecAgent == InitInterp /\ [][NextAgent]_vars

\* The step is an iteration that scanned the page.
ScanStep == pc = "loop" /\ running /\ event'.kind \in {"scan", "interrupt"}

\* The elements of the attempts that ended as `ok`.
Attempted(attempts, ok) ==
    {attempts[i].element : i \in {j \in 1..Len(attempts) : attempts[j].ok = ok}}

\* No call is made twice for one request: at most one database call per entry,
\* at most one query of each kind per field.
NothingReissued ==
    /\ reply.op \in ApiOps =>
         \A i, j \in 1..Len(reply.calls) :
             reply.calls[i].entry = reply.calls[j].entry => i = j
    /\ reply.op = "POST /interpret" /\ reply.body.kind = "interpretation" =>
         \A i, j \in 1..Len(reply.body.log) :
             /\ reply.body.log[i].field = reply.body.log[j].field
             /\ reply.body.log[i].kind = reply.body.log[j].kind
             => i = j

\* C17 (as claimed): a scan attempts no element whose fill failed or returned
\* False in an earlier scan, and the server issues no call twice.
C17_FailedNeverRetried ==
    /\ []NothingReissued
    /\ [][ScanStep =>
            (Attempted(event'.attempts, TRUE) \cup Attempted(event'.attempts, FALSE))
                \cap failed = {}]_vars

\* C17 (amended): a scan attempts each element at most once and no element
\* that is in filled_inputs; an element whose attempt did not return True is
\* not put into filled_inputs; the server issues no call twice.
C17_FilledNeverRetried ==
    /\ []NothingReissued
    /\ [][ScanStep =>
            /\ \A i, j \in 1..Len(event'.attempts) :
                 event'.attempts[i].element = event'.attempts[j].element => i = j
            /\ (Attempted(event'.attempts, TRUE) \cup Attempted(event'.attempts, FALSE))
                 \cap filled_inputs = {}
            /\ Attempted(event'.attempts, FALSE) \cap filled_inputs' = {}
            /\ filled_inputs' = filled_inputs \cup Attempted(event'.attempts, TRUE)]_vars

\* A scan has filled an element whose fill had failed in an earlier scan.
C17_Witness ==
    /\ event.kind = "scan"
    /\ Attempted(event.attempts, TRUE) \cap failed # {}

\* -------------------------------------------------------------------- launcher

\* (formfiller.py. A command-line argument is a Python str.)

DigitValue ==
    ("0" :> 0) @@ ("1" :> 1) @@ ("2" :> 2) @@ ("3" :> 3) @@ ("4" :> 4) @@
    ("5" :> 5) @@ ("6" :> 6) @@ ("7" :> 7) @@ ("8" :> 8) @@ ("9" :> 9)

IsDigits(s) == \A i \in 1..Len(s) : s[i] \in DOMAIN DigitValue

RECURSIVE ToNat(_)
\* The number a str of digits denotes.
ToNat(s) == IF s = <<>> THEN 0 ELSE 10 * ToNat(SubSeq(s, 1, Len(s) - 1)) + DigitValue[s[Len(s)]]

RECURSIVE NatDigits(_)
\* The decimal digits of a natural number.
NatDigits(n) ==
    LET d == CHOOSE c \in DOMAIN DigitValue : DigitValue[c] = n % 10
    IN  IF n < 10 THEN <<d>> ELSE NatDigits(n \div 10) \o <<d>>

RECURSIVE StripZeros(_)
\* The digits after the point without their trailing zeros.
StripZeros(s) ==
    IF s # <<>> /\ s[Len(s)] = "0" THEN StripZeros(SubSeq(s, 1, Len(s) - 1)) ELSE s

\* A float that a short decimal literal denotes: sign, whole part, and the
\* digits after the point.
Float(neg, units, frac) == [ok |-> TRUE, neg |-> neg, units |-> units, frac |-> frac]

NoFloat == [ok |-> FALSE, neg |-> FALSE, units |-> 0, frac |-> <<>>]

\* float(text) for a decimal literal: an optional sign, digits with an
\* optional point; ok is FALSE where float raises ValueError.
ParseFloat(text) ==
    LET signed == text # <<>> /\ text[1] \in {"-", "+"}
        body   == IF signed THEN Tail(text) ELSE text
        dots   == {i \in 1..Len(body) : body[i] = "."}
        dot    == IF dots = {} THEN Len(body) + 1 ELSE CHOOSE i \in dots : TRUE
        whole  == SubSeq(body, 1, dot - 1)
        frac   == SubSeq(body, dot + 1, Len(body))
    IN  IF Cardinality(dots) > 1 \/ ~IsDigits(whole) \/ ~IsDigits(frac)
           \/ (whole = <<>> /\ frac = <<>>)
        THEN NoFloat
        ELSE Float(signed /\ text[1] = "-", ToNat(whole), StripZeros(frac))

\* A plausible slip: the interval formatted as an int when it is whole.
FloatStrWhole(x) ==
    (IF x.neg THEN <<"-">> ELSE <<>>) \o NatDigits(x.units)
        \o (IF x.frac = <<>> THEN <<>> ELSE <<".">> \o x.frac)

\* str(x) of a float: always a point and a digit after it.
FloatStr(x) ==
    (IF x.neg THEN <<"-">> ELSE <<>>) \o NatDigits(x.units) \o <<".">>
        \o (IF x.frac = <<>> THEN <<"0">> ELSE x.frac)

\* The namespace parse_args returns (error: argparse prints usage and exits).
Namespace(browser, attach, interval, debug, fill_hidden, error) ==
    [browser |-> browser, attach |-> attach, interval |-> interval, debug |-> debug,
     fill_hidden |-> fill_hidden, error |-> error]

\* The defaults of the five options.
Defaults == Namespace(<<"f","i","r","e","f","o","x">>, FALSE, Float(FALSE, 2, <<>>), FALSE, FALSE, FALSE)

Choices == {<<"f","i","r","e","f","o","x">>, <<"c","h","r","o","m","e">>, <<"s","a","f","a","r","i">>}

\* The argument starts an option.
IsOption(arg) == Len(arg) >= 2 /\ SubSeq(arg, 1, 2) = <<"-","-">>

RECURSIVE ParseArgs(_, _, _)
\* parser.parse_args() from argument i on: --browser takes one of the choices,
\* --interval a float, the flags store True; anything else is an error.
ParseArgs(args, i, ns) ==
    IF i > Len(args) THEN ns
    ELSE IF args[i] = <<"-","-","b","r","o","w","s","e","r">>
    THEN IF i < Len(args) /\ args[i + 1] \in Choices
         THEN ParseArgs(args, i + 2, [ns EXCEPT !.browser = args[i + 1]])
         ELSE [ns EXCEPT !.error = TRUE]
    ELSE IF args[i] = <<"-","-","i","n","t","e","r","v","a","l">>
    THEN IF i < Len(args) /\ ~IsOption(args[i + 1]) /\ ParseFloat(args[i + 1]).ok
         THEN ParseArgs(args, i + 2, [ns EXCEPT !.interval = ParseFloat(args[i + 1])])
         ELSE [ns EXCEPT !.error = TRUE]
    ELSE IF args[i] = <<"-","-","a","t","t","a","c","h">> THEN ParseArgs(args, i + 1, [ns EXCEPT !.attach = TRUE])
    ELSE IF args[i] = <<"-","-","d","e","b","u","g">> THEN ParseArgs(args, i + 1, [ns EXCEPT !.debug = TRUE])
    ELSE IF args[i] = <<"-","-","f","i","l","l","-","h","i","d","d","e","n">>
    THEN ParseArgs(args, i + 1, [ns EXCEPT !.fill_hidden = TRUE])
    ELSE [ns EXCEPT !.error = TRUE]

\* script_path, below the launcher's directory.
ScriptPath(browser) == <<"s","r","c","/","b","r","o","w","s","e","r","s","/">> \o browser \o <<"_","a","u","t","o","_","f","i","l","l","e","r",".","p","y">>

\* The command main() builds of the namespace.
Cmd(args) ==
    <<<<"p","y","t","h","o","n">>, ScriptPath(args.browser)>>
        \o (IF args.attach THEN <<<<"-","-","a","t","t","a","c","h">>>> ELSE <<>>)
        \o <<<<"-","-","i","n","t","e","r","v","a","l">>, FloatStr(args.interval)>>
        \o (IF args.debug THEN <<<<"-","-","d","e","b","u","g">>>> ELSE <<>>)
        \o (IF args.fill_hidden THEN <<<<"-","-","f","i","l","l","-","h","i","d","d","e","n">>>> ELSE <<>>)

\* ------------------------------------------------------------ launcher: actions

BrowserArgs ==
    {<<>>, <<<<"-","-","b","r","o","w","s","e","r">>, <<"f","i","r","e","f","o","x">>>>, <<<<"-","-","b","r","o","w","s","e","r">>, <<"c","h","r","o","m","e">>>>,
     <<<<"-","-","b","r","o","w","s","e","r">>, <<"s","a","f","a","r","i">>>>, <<<<"-","-","b","r","o","w","s","e","r">>, <<"o","p","e","r","a">>>>}

IntervalArgs ==
    {<<>>} \cup {<<<<"-","-","i","n","t","e","r","v","a","l">>, t>> :
                  t \in {<<"1",".","5">>, <<"2">>, <<"2",".","0">>, <<".","5">>, <<"1",".","5","0">>, <<"0","2">>, <<"1","0">>, <<"-","1">>, <<"a","b","c">>, <<"1",".","5",".","2">>}}
           \cup {<<<<"-","-","i","n","t","e","r","v","a","l">>>>}

Flag(name) == {<<>>, <<name>>}

\* The command lines: the options in the order of their declaration and in
\* the opposite order, and an option given twice.
CommandLines ==
    {b \o a \o i \o d \o h :
        b \in BrowserArgs, a \in Flag(<<"-","-","a","t","t","a","c","h">>), i \in IntervalArgs,
        d \in Flag(<<"-","-","d","e","b","u","g">>), h \in Flag(<<"-","-","f","i","l","l","-","h","i","d","d","e","n">>)}
    \cup {h \o d \o i \o a \o b :
        b \in BrowserArgs, a \in Flag(<<"-","-","a","t","t","a","c","h">>), i \in IntervalArgs,
        d \in Flag(<<"-","-","d","e","b","u","g">>), h \in Flag(<<"-","-","f","i","l","l","-","h","i","d","d","e","n">>)}
    \cup {<<<<"-","-","i","n","t","e","r","v","a","l">>, <<"1",".","5">>, <<"-","-","b","r","o","w","s","e","r">>, <<"c","h","r","o","m","e">>, <<"-","-","i","n","t","e","r","v","a","l">>, <<"0",".","2","5">>,
            <<"-","-","b","r","o","w","s","e","r">>, <<"s","a","f","a","r","i">>>>}

\* The launcher started with some command line, the server and driver aside.
InitLauncher ==
    /\ rag_enabled = FALSE
    /\ qa = FALSE
    /\ call = Idle
    /\ user_table = {}
    /\ user_data = NoUserData
    /\ reply = NoReply
    /\ InitStore
    /\ InitDriver
    /\ argv \in CommandLines
    /\ command = <<>>
    /\ main_state = "new"
    /\ NoProfile

\* main(): parse the arguments, build the command, subprocess.run(cmd).
Main ==
    /\ main_state = "new"
    /\ LET args == ParseArgs(argv, 1, Defaults)
       IN  IF args.error
           THEN main_state' = "exit" /\ UNCHANGED command
           ELSE main_state' = "returned" /\ command' = Append(command, Cmd(args))
    /\ UNCHANGED <<argv, serverVars, storeVars, driverVars, profileVars>>

NextLauncher == Main

SpecLauncher == InitLauncher /\ [][NextLauncher]_vars

\* ------------------------------------------------------------- launcher: claims

\* The option is given on the command line.
Given(name) == \E i \in 1..Len(argv) : argv[i] = name

\* The argument that follows the last occurrence of the option.
LastValue(name) ==
    LET at == {i \in 1..(Len(argv) - 1) : argv[i] = name}
    IN  argv[(CHOOSE i \in at : \A j \in at : j <= i) + 1]

Contains1(cmd, arg) == \E i \in 1..Len(cmd) : cmd[i] = arg

\* The text is the string of a float: digits, a point, digits, with no
\* needless zero before or after.
CanonicalFloat(t) ==
    LET body == IF t # <<>> /\ t[1] = "-" THEN Tail(t) ELSE t
        dots == {i \in 1..Len(body) : body[i] = "."}
    IN  /\ Cardinality(dots) = 1
        /\ LET dot == CHOOSE i \in dots : TRUE
           IN  /\ dot > 1 /\ dot < Len(body)
               /\ IsDigits(SubSeq(body, 1, dot - 1)) /\ IsDigits(SubSeq(body, dot + 1, Len(body)))
               /\ dot > 2 => body[1] # "0"
               /\ dot + 1 < Len(body) => body[Len(body)] # "0"

\* C19: when main() has returned it has run one subprocess; its command names
\* the script of the chosen browser (firefox by default), holds --interval
\* followed by the string of the interval ("2.0" by default, "1.5" for 1.5),
\* and holds --attach, --debug and --fill-hidden exactly when given.
C19_OneCommand ==
    main_state = "returned" =>
        /\ Len(command) = 1
        /\ LET cmd     == command[1]
               browser == IF Given(<<"-","-","b","r","o","w","s","e","r">>) THEN LastValue(<<"-","-","b","r","o","w","s","e","r">>) ELSE <<"f","i","r","e","f","o","x">>
               at      == {i \in 1..(Len(cmd) - 1) : cmd[i] = <<"-","-","i","n","t","e","r","v","a","l">>}
           IN  /\ cmd[2] = <<"s","r","c","/","b","r","o","w","s","e","r","s","/">> \o browser \o <<"_","a","u","t","o","_","f","i","l","l","e","r",".","p","y">>
               /\ browser = <<"c","h","r","o","m","e">> => cmd[2] = <<"s","r","c","/","b","r","o","w","s","e","r","s","/","c","h","r","o","m","e","_","a","u","t","o","_","f","i","l","l","e","r",".","p","y">>
               /\ Cardinality(at) = 1
               /\ \A i \in at :
                    /\ CanonicalFloat(cmd[i + 1])
                    /\ ~Given(<<"-","-","i","n","t","e","r","v","a","l">>) => cmd[i + 1] = <<"2",".","0">>
                    /\ Given(<<"-","-","i","n","t","e","r","v","a","l">>) =>
                         /\ ParseFloat(cmd[i + 1]) = ParseFloat(LastValue(<<"-","-","i","n","t","e","r","v","a","l">>))
                         /\ LastValue(<<"-","-","i","n","t","e","r","v","a","l">>) = <<"1",".","5">> => cmd[i + 1] = <<"1",".","5">>
               /\ Contains1(cmd, <<"-","-","a","t","t","a","c","h">>) <=> Given(<<"-","-","a","t","t","a","c","h">>)
               /\ Contains1(cmd, <<"-","-","d","e","b","u","g">>) <=> Given(<<"-","-","d","e","b","u","g">>)
               /\ Contains1(cmd, <<"-","-","f","i","l","l","-","h","i","d","d","e","n">>) <=> Given(<<"-","-","f","i","l","l","-","h","i","d","d","e","n">>)

\* main() has returned for --browser chrome --attach --interval 2 --debug.
C19_Witness ==
    /\ main_state = "returned"
    /\ argv = <<<<"-","-","b","r","o","w","s","e","r">>, <<"c","h","r","o","m","e">>, <<"-","-","a","t","t","a","c","h">>, <<"-","-","i","n","t","e","r","v","a","l">>, <<"2">>, <<"-","-","d","e","b","u","g">>>>
    /\ command = <<<<<<"p","y","t","h","o","n">>, <<"s","r","c","/","b","r","o","w","s","e","r","s","/","c","h","r","o","m","e","_","a","u","t","o","_","f","i","l","l","e","r",".","p","y">>, <<"-","-","a","t","t","a","c","h">>,
                     <<"-","-","i","n","t","e","r","v","a","l">>, <<"2",".","0">>, <<"-","-","d","e","b","u","g">>>>>>

\* ------------------------------------------------------ stored data: lifetime

\* Two profiles and four mappings of one domain, enough for a record to be
\* saved, overwritten and fetched.
StoreDicts ==
    { [k \in {"email"} |-> Str(<<"a","@","b",".","c">>)], [k \in {"email", "nickname"} |-> None] }

StoreMappings ==
    MappingArgs({Str(<<"a",".","c","o","m">>)}, FormIds,
                { [user_field |-> Str(<<"e","m","a","i","l">>), field_type |-> None, confidence |-> Num(<<"1",".","0">>)],
                  [user_field |-> Str(<<"p","h","o","n","e">>), field_type |-> Str(<<"t","e","x","t">>), confidence |-> Num(<<"0",".","5">>)] })

SaveProfile == SaveUserDataOver(StoreDicts)

SaveMapping == SaveFormMappingOver(StoreMappings)

\* The saves and fetches of the data service on profiles and mappings.
NextStore ==
    \/ SaveProfile
    \/ GetUserData
    \/ SaveMapping
    \/ GetFormMappings

SpecStore == InitData /\ [][NextStore]_vars

\* The user ids that have a stored profile.
StoredUsers(table) == {r.id : r \in table}

\* The (domain, form_id, field_name) keys that have a stored mapping.
StoredKeys(table) ==
    {<<table[i].domain, table[i].form_id, table[i].field_name>> : i \in 1..Len(table)}

\* The stored rows of a key, in storage order.
KeyRows(table, k) ==
    LET ofKey(r) == SameKey(r, k[1], k[2], k[3])
    IN  SelectSeq(table, ofKey)

\* One step of the data service deletes nothing: no user id and no mapping key
\* leaves storage, the rows of a user or of a key change only in a successful
\* save of that user or key, and a fetch changes no table.
StoreStep ==
    /\ StoredUsers(user_table) \subseteq StoredUsers(user_table')
    /\ StoredKeys(form_mappings) \subseteq StoredKeys(form_mappings')
    /\ \A u \in UserIds :
         Profile(user_table', u) # Profile(user_table, u)
         => /\ reply'.op = "save_user_data"
            /\ reply'.user_id = u
            /\ reply'.ret
            /\ Cardinality(Profile(user_table', u)) = 1
    /\ \A k \in StoredKeys(form_mappings) \cup StoredKeys(form_mappings') :
         KeyRows(form_mappings', k) # KeyRows(form_mappings, k)
         => /\ reply'.op = "save_form_mapping"
            /\ k = <<reply'.domain, reply'.form_id, reply'.field_name>>
            /\ reply'.ret
    /\ reply'.op \in {"get_user_data", "get_form_mappings"}
       => user_table' = user_table /\ form_mappings' = form_mappings

\* C21: over every sequence of saves and fetches of profiles and mappings the
\* set of user ids with a stored profile and the set of (domain, form_id,
\* field_name) keys with a stored mapping never shrink; a record changes only
\* by a save with its own key, and a fetch changes nothing.
C21_NothingDeleted == [][StoreStep]_vars

\* Two users and two mapping keys are stored, and a mapping with a form id has
\* just been saved over them.
C21_Witness ==
    /\ StoredUsers(user_table) = UserIds
    /\ Cardinality(StoredKeys(form_mappings)) = 2
    /\ reply.op = "save_form_mapping"
    /\ reply.ret
    /\ reply.form_id # None
    /\ reply.payload.user_field = Str(<<"p","h","o","n","e">>)

\* --------------------------------------------------- Firefox signing switch

\* Most calls of modify_signature_requirement on the profile.
MaxCalls == 4

\* A file that holds the text s.
File(s) == [t |-> "file", s |-> s]

\* 'user_pref("xpinstall.signatures.required", false);'
signature_pref == <<"u","s","e","r","_","p","r","e","f","(","\"","x","p","i","n","s","t","a","l","l",".","s","i","g","n","a","t","u","r","e","s",".","r","e","q","u","i","r","e","d","\"",","," ","f","a","l","s","e",")",";">>

\* The two texts of signature_pref_pattern, the alternatives true and false of
\* r'user_pref\("xpinstall.signatures.required", (true|false)\);'; a "." of the
\* pattern stands for any character but a newline.
signature_pref_pattern ==
    << <<"u","s","e","r","_","p","r","e","f","(","\"","x","p","i","n","s","t","a","l","l",".","s","i","g","n","a","t","u","r","e","s",".","r","e","q","u","i","r","e","d","\"",","," ","t","r","u","e",")",";">>,
       <<"u","s","e","r","_","p","r","e","f","(","\"","x","p","i","n","s","t","a","l","l",".","s","i","g","n","a","t","u","r","e","s",".","r","e","q","u","i","r","e","d","\"",","," ","f","a","l","s","e",")",";">> >>

\* The pattern text p matches the text at position i.
MatchesAt(p, text, i) ==
    /\ i + Len(p) - 1 <= Len(text)
    /\ \A j \in 1..Len(p) :
         IF p[j] = "." THEN text[i + j - 1] # "\n" ELSE text[i + j - 1] = p[j]

\* The length of the match of the pattern at position i, 0 when there is none.
MatchLen(pattern, text, i) ==
    IF MatchesAt(pattern[1], text, i) THEN Len(pattern[1])
    ELSE IF MatchesAt(pattern[2], text, i) THEN Len(pattern[2])
    ELSE 0

\* pattern.search(text) is not None
PatternSearch(pattern, text) ==
    \E i \in 1..Len(text) : MatchLen(pattern, text, i) > 0

RECURSIVE ReSub(_, _, _, _)
\* re.sub(pattern, repl, text) from position i on: every match, left to right,
\* gives way to repl.
ReSub(pattern, repl, text, i) ==
    IF i > Len(text) THEN <<>>
    ELSE LET n == MatchLen(pattern, text, i)
         IN  IF n > 0 THEN repl \o ReSub(pattern, repl, text, i + n)
             ELSE <<text[i]>> \o ReSub(pattern, repl, text, i + 1)

\* f.write(f"\n{signature_pref}\n") at the end of a file
AppendPref(text) == text \o <<"\n">> \o signature_pref \o <<"\n">>

\* modify_signature_requirement(profile_path, enable): [ret, prefs, user], the
\* value returned and the two files after the call. Without prefs.js nothing
\* is done. enable=True removes the preference from prefs.js where it is set;
\* enable=False sets it to false in prefs.js (in place, or appended) and
\* appends it to user.js (opened with 'a+', so created when missing) unless
\* user.js holds the preference already.
ModifySignatureRequirement(prefs, user, enable) ==
    IF prefs = Missing THEN [ret |-> FALSE, prefs |-> prefs, user |-> user]
    ELSE LET found == PatternSearch(signature_pref_pattern, prefs.s)
             ufound == user # Missing /\ PatternSearch(signature_pref_pattern, user.s)
         IN  IF enable
             THEN [ret |-> found,
                   prefs |-> IF found THEN File(ReSub(signature_pref_pattern, <<>>, prefs.s, 1)) ELSE prefs,
                   user |-> user]
             ELSE [ret |-> TRUE,
                   prefs |-> IF found
                             THEN File(ReSub(signature_pref_pattern, signature_pref, prefs.s, 1))
                             ELSE File(AppendPref(prefs.s)),
                   user |-> IF ufound THEN user
                            ELSE File(AppendPref(IF user = Missing THEN <<>> ELSE user.s))]

\* The profiles the script may find: prefs.js missing, without the preference,
\* or with it set to true or to false; user.js missing or without it.
OtherPref == <<"u","s","e","r","_","p","r","e","f","(","\"","b","r","o","w","s","e","r",".","s","t","a","r","t","u","p",".","p","a","g","e","\"",","," ","3",")",";","\n">>

PrefsFiles ==
    { Missing, File(OtherPref),
      File(OtherPref \o <<"u","s","e","r","_","p","r","e","f","(","\"","x","p","i","n","s","t","a","l","l",".","s","i","g","n","a","t","u","r","e","s",".","r","e","q","u","i","r","e","d","\"",","," ","t","r","u","e",")",";","\n">>),
      File(<<"u","s","e","r","_","p","r","e","f","(","\"","x","p","i","n","s","t","a","l","l",".","s","i","g","n","a","t","u","r","e","s",".","r","e","q","u","i","r","e","d","\"",","," ","f","a","l","s","e",")",";","\n">> \o OtherPref) }

UserFiles == { Missing, File(OtherPref) }

InitProfile ==
    /\ rag_enabled = FALSE
    /\ qa = FALSE
    /\ call = Idle
    /\ user_table = {}
    /\ user_data = NoUserData
    /\ reply = NoReply
    /\ InitStore
    /\ InitDriver
    /\ NoLaunch
    /\ prefs_js \in PrefsFiles
    /\ user_js \in UserFiles
    /\ profile_calls = <<>>

\* One run of the script on the profile.
Modify(enable) ==
    /\ Len(profile_calls) < MaxCalls
    /\ LET r == ModifySignatureRequirement(prefs_js, user_js, enable)
       IN  /\ prefs_js' = r.prefs
           /\ user_js' = r.user
           /\ profile_calls' = Append(profile_calls,
                                      [enable |-> enable, prefs |-> prefs_js,
                                       user |-> user_js, ret |-> r.ret])
    /\ UNCHANGED <<serverVars, storeVars, driverVars, launchVars>>

\* python disable_firefox_signing.py
Disable == Modify(FALSE)

\* python disable_firefox_signing.py --enable
Enable == Modify(TRUE)

NextProfile ==
    \/ Disable
    \/ Enable

SpecProfile == InitProfile /\ [][NextProfile]_vars

\* A file sets xpinstall.signatures.required to false.
SetsFalse(file) ==
    /\ file # Missing
    /\ \E i \in 1..Len(file.s) : MatchesAt(signature_pref_pattern[2], file.s, i)

\* Signature verification is on for the profile: the preference is true by
\* default, and a file that sets it to false turns it off.
Required(prefs, user) == ~SetsFalse(prefs) /\ ~SetsFalse(user)

\* C22: after modify_signature_requirement with enable=True on a profile that
\* has a prefs.js, whatever calls came before, neither prefs.js nor user.js
\* sets xpinstall.signatures.required to false, and an enable that follows a
\* disable leaves signature verification as it was before the disable.
C22_EnableRestores ==
    LET n == Len(profile_calls)
    IN  (n > 0 /\ profile_calls[n].enable /\ profile_calls[n].prefs # Missing)
        => /\ ~SetsFalse(prefs_js)
           /\ ~SetsFalse(user_js)
           /\ (n > 1 /\ ~profile_calls[n - 1].enable)
              => Required(prefs_js, user_js)
                   = Required(profile_calls[n - 1].prefs, profile_calls[n - 1].user)

\* ------------------------------------------------------ fetching mappings: claims

\* The positions of the stored rows a fetch of (domain, form_id) is to return:
\* the rows of the domain, and of the form when a form id is given.
RowsWanted(domain, form_id) ==
    {i \in 1..Len(form_mappings) :
        /\ form_mappings[i].domain = domain
        /\ (form_id \in {None, Str(<<>>)} \/ form_mappings[i].form_id = form_id)}

\* How often the mapping m is in the list.
Times(list, m) == Cardinality({k \in 1..Len(list) : list[k] = m})

\* C23: get_form_mappings(domain, form_id) returns exactly the stored mappings
\* of that domain and form id; without a form id, or with an empty one, exactly
\* the stored mappings of the domain over all form ids, those saved without a
\* form id included; a mapping of another domain is never returned. (A fetch
\* that reads the database.)
C23_FetchByDomainAndForm ==
    (reply.op = "get_form_mappings" /\ reply.db = "ok")
    => LET wanted == RowsWanted(reply.domain, reply.form_id)
       IN  /\ Len(reply.ret) = Cardinality(wanted)
           /\ \A i \in wanted :
                Times(reply.ret, StoredMapping(form_mappings[i]))
                  = Cardinality({j \in wanted :
                                   StoredMapping(form_mappings[j]) = StoredMapping(form_mappings[i])})

\* A domain holds a mapping saved with a form id and one saved without, and a
\* fetch of the domain with an empty form id has returned both.
C23_Witness ==
    /\ reply.op = "get_form_mappings"
    /\ reply.db = "ok"
    /\ reply.form_id = Str(<<>>)
    /\ Len(reply.ret) = 2
    /\ \E i, j \in 1..Len(form_mappings) :
         /\ form_mappings[i].form_id = None
         /\ form_mappings[j].form_id = Str(<<"f","1">>)
         /\ form_mappings[i].domain = reply.domain
         /\ form_mappings[j].domain = reply.domain

\* ------------------------------------------------- interpreter: the mappings list

\* The fields of the form of an interpret_form call that returned.
CallFields == Elements(FieldsOf(call.form_data))

\* Field i of the call produced a match: a pattern of the table matched its
\* text, or the RAG chain, asked about it, gave a usable answer.
Matched(i) ==
    \/ Truthy(MatchFieldPatterns(FieldText(CallFields[i]), Get(CallFields[i].type, Empty)).user_field)
    \/ \E q \in 1..Len(call.ret.log) :
         call.ret.log[q].field = i /\ RagUsable(call.ret.log[q].outcome)

\* The k-th smallest member of a set of positions.
Kth(positions, k) ==
    CHOOSE i \in positions : Cardinality({j \in positions : j <= i}) = k

\* The field's name, or the field's id when the name is empty.
NameOrId(field) ==
    IF Get(field.name, Empty) \in {Empty, None} THEN Get(field.id, Empty) ELSE field.name

\* C24: the mappings list interpret_form returns holds, in the order of the
\* input fields, exactly one mapping for each field that produced a match and
\* none for a field that did not; it is never longer than the list of fields,
\* and a mapping's field_name is the field's name, or its id when the name is
\* empty.
C24_OneMappingPerMatch ==
    (call.op = "interpret_form" /\ ~call.ret.raised)
    => LET n == IF Falsy(FieldsOf(call.form_data)) THEN 0 ELSE Len(CallFields)
           hits == {i \in 1..n : Matched(i)}
           mappings == call.ret.mappings
       IN  /\ Len(mappings) = Cardinality(hits)
           /\ Len(mappings) <= n
           /\ \A k \in 1..Len(mappings) :
                /\ mappings[k].present
                /\ mappings[k].field_name = NameOrId(CallFields[Kth(hits, k)])

\* A form of three fields whose second field produced no match: two mappings,
\* the second one named by the id of the third field, whose name is empty.
C24_Witness ==
    /\ call.op = "interpret_form"
    /\ ~call.ret.raised
    /\ Len(CallFields) = 3
    /\ ~Matched(2)
    /\ Len(call.ret.mappings) = 2
    /\ call.ret.mappings[1].field_name = Str(<<"f","n","a","m","e">>)
    /\ call.ret.mappings[2].field_name = Str(<<"a","d","d","r">>)

\* --------------------------------------------- interpreter: patterns before RAG

\* The category _match_field_patterns gives for a field descriptor.
PatternOf(field) == MatchFieldPatterns(FieldText(field), Get(field.type, Empty))

\* The mapping of a field that a pattern matched.
PatternMapping(field) ==
    Mapping(NameOrId(field), Get(field.type, Empty), PatternOf(field).user_field.s,
            PatternOf(field).confidence, "pattern_matching")

\* The fields of an interpret_form or enhance_with_ai call.
FormFields ==
    IF Falsy(FieldsOf(call.form_data)) THEN <<>> ELSE Elements(FieldsOf(call.form_data))

\* C25: every pattern confidence is at least 0.8, so for every field for which
\* _match_field_patterns returns a category, _interpret_field (and
\* enhance_with_ai, and interpret_form) returns that category with method
\* pattern_matching, RAG enabled or not and whatever the chain would answer;
\* the RAG chain is asked only about fields with no pattern match.
C25_PatternBeforeRag ==
    /\ (call.op = "_match_field_patterns" /\ Truthy(call.ret.user_field))
       => call.ret.confidence >= 80
    /\ (call.op = "_interpret_field" /\ call.field.kind = "dict"
          /\ Truthy(PatternOf(call.field).user_field))
       => /\ call.ret.mapping = PatternMapping(call.field)
          /\ call.rag = <<>>
    /\ (call.op \in {"interpret_form", "enhance_with_ai"} /\ ~call.ret.raised)
       => \A i \in 1..Len(FormFields) :
            Truthy(PatternOf(FormFields[i]).user_field)
            => /\ \A q \in 1..Len(call.ret.log) : call.ret.log[q].field # i
               /\ \E k \in 1..Len(call.ret.mappings) :
                    call.ret.mappings[k] = PatternMapping(FormFields[i])

\* enhance_with_ai with RAG enabled on a form whose first field a pattern
\* matched at 0.8 and whose second field none matched: the chain was asked
\* about the second field and gave a usable answer, and the first field kept
\* its pattern mapping.
C25_Witness ==
    /\ call.op = "enhance_with_ai"
    /\ rag_enabled
    /\ ~call.ret.raised
    /\ Len(FormFields) = 2
    /\ PatternOf(FormFields[1]).confidence = 80
    /\ ~Truthy(PatternOf(FormFields[2]).user_field)
    /\ Len(call.ret.mappings) = 2
    /\ call.ret.mappings[1].method = "pattern_matching"
    /\ call.ret.mappings[2].method \in {"rag", "contextual_rag"}

\* ------------------------------------------- interpreter: category names as field names

\* The descriptor {name: c, type: text}, every other attribute empty.
Named(c) == Field(Str(c), Empty, Str(<<"t","e","x","t">>), Empty, Empty)

\* The category names that hold "address" and are not address_street: the
\* address rule, which is tried before the city, state, zip and country rules,
\* matches them.
AddressNames == { <<"a","d","d","r","e","s","s","_","c","i","t","y">>, <<"a","d","d","r","e","s","s","_","s","t","a","t","e">>, <<"a","d","d","r","e","s","s","_","z","i","p">>, <<"a","d","d","r","e","s","s","_","c","o","u","n","t","r","y">> }

\* C26 as stated: a field whose name is exactly one of the ten category names
\* (type text, the other attributes empty) is interpreted as that category.
C26_NameIsCategory ==
    \A c \in Categories :
        (call.op = "_interpret_field" /\ call.field = Named(c))
        => call.ret.mapping.present /\ call.ret.mapping.user_field = c

\* C26, amended: a field named first_name, last_name, full_name, email, phone
\* or address_street is interpreted as that category; a field named
\* address_city, address_state, address_zip or address_country is interpreted
\* as address_street at 0.8 by pattern matching, RAG enabled or not.
C26_NameIsCategoryButAddress ==
    \A c \in Categories :
        (call.op = "_interpret_field" /\ call.field = Named(c))
        => /\ call.ret.mapping.present
           /\ call.ret.mapping.method = "pattern_matching"
           /\ call.ret.mapping.field_name = Str(c)
           /\ IF c \in AddressNames
              THEN /\ call.ret.mapping.user_field = <<"a","d","d","r","e","s","s","_","s","t","r","e","e","t">>
                   /\ call.ret.mapping.confidence = 80
              ELSE call.ret.mapping.user_field = c

\* _interpret_field has returned address_street for the field named
\* address_city, with RAG enabled.
C26_Witness ==
    /\ call.op = "_interpret_field"
    /\ call.field = Named(<<"a","d","d","r","e","s","s","_","c","i","t","y">>)
    /\ rag_enabled
    /\ call.ret.mapping.user_field = <<"a","d","d","r","e","s","s","_","s","t","r","e","e","t">>

\* ------------------------------------------------------ POST /interpret: claims

\* The response of the last request is the result interpret_form returns for
\* the form, for some answers of the RAG chain: the ones the response's RAG
\* traffic shows.
AnswersWith(form_data) ==
    \E oracle \in Oracles(form_data) :
        LET r == InterpretForm(form_data, oracle)
        IN  /\ ~r.raised
            /\ reply.status = 200
            /\ reply.body = [kind |-> "interpretation",
                             value |-> [mappings |-> r.mappings, confidence |-> r.confidence],
                             log |-> r.log]

\* interpret_form raises for the form and the response is the 500 of the
\* except clause.
AnswersFailure(form_data) ==
    /\ \A oracle \in Oracles(form_data) : InterpretForm(form_data, oracle).raised
    /\ reply.status = 500
    /\ reply.body = ErrorBody("Failed to interpret form")

\* C27 as stated: for every payload that is a JSON object, {} included, POST
\* /interpret answers 200 with exactly the result interpret_form returns for
\* that object (for {} the empty result).
C27_FaithfulWrapper ==
    (reply.op = "POST /interpret" /\ IsDict(reply.request.payload))
    => AnswersWith(FormData(reply.request.payload))

\* C27, amended: for a payload that is a non-empty JSON object POST /interpret
\* answers 200 with exactly the result interpret_form returns for it, or 500
\* with the fixed error body when interpret_form raises; the empty object {} is
\* answered 400 "Invalid form data" and the interpreter is not called.
C27_WrapperOfNonEmptyObject ==
    /\ (reply.op = "POST /interpret" /\ reply.request.payload.t = "dict")
       => \/ AnswersWith(reply.request.payload.body)
          \/ AnswersFailure(reply.request.payload.body)
    /\ (reply.op = "POST /interpret" /\ reply.request.payload = EmptyObject)
       => /\ reply.status = 400
          /\ reply.body = ErrorBody("Invalid form data")

\* POST /interpret was answered 200 with one mapping that the RAG chain gave.
C27_Witness ==
    /\ reply.op = "POST /interpret"
    /\ reply.request.payload.t = "dict"
    /\ reply.status = 200
    /\ Len(reply.body.value.mappings) = 1
    /\ reply.body.value.mappings[1].method = "rag"
    /\ Len(reply.body.log) = 1

\* ------------------------------------------------ browser driver: fills, claims

\* What a step of the driver does to filled_inputs: a scan adds exactly the
\* elements whose fill returned True, none of which was in the set, and
\* attempts no element of the set; while fill_hidden_inputs is False it fills no
\* element that is not displayed; any other step leaves the set as it is.
FillStep ==
    /\ filled_inputs \subseteq filled_inputs'
    /\ IF ScanStep
       THEN /\ filled_inputs' \ filled_inputs = Attempted(event'.attempts, TRUE)
            /\ \A i \in 1..Len(event'.attempts) :
                 /\ event'.attempts[i].element \notin filled_inputs
                 /\ \A j \in 1..Len(event'.attempts) :
                      event'.attempts[i].element = event'.attempts[j].element => i = j
                 /\ (event'.attempts[i].ok /\ ~fill_hidden_inputs)
                    => event'.attempts[i].displayed
       ELSE filled_inputs' = filled_inputs

\* C28: across any sequence of scans of one driver object each element is
\* filled at most once: an element id is put into filled_inputs exactly when
\* its fill returned True, filled_inputs only grows, an element whose id is in
\* filled_inputs is passed over by every later scan, and an element that is not
\* displayed is never filled while fill_hidden_inputs is False.
C28_FilledAtMostOnce == [][FillStep]_vars

\* With fill_hidden_inputs False every element has been filled, and a scan
\* after that attempted none.
C28_Witness ==
    /\ ~fill_hidden_inputs
    /\ filled_inputs = ElementIds
    /\ event.kind = "scan"
    /\ event.attempts = <<>>

\* ------------------------------------------------ launcher: the launched scripts

\* (The argument parsers of src/browsers/chrome_auto_filler.py,
\* safari_auto_filler.py and browser_auto_filler.py, the Firefox driver.)

\* parser.add_argument(name, ...): kind "flag" for action='store_true', else
\* the type of the value the option takes.
ScriptOption(name, kind) == [name |-> name, kind |-> kind]

ChromeOptions ==
    { ScriptOption(<<"-","-","a","t","t","a","c","h">>, "flag"), ScriptOption(<<"-","-","i","n","t","e","r","v","a","l">>, "float"),
      ScriptOption(<<"-","-","d","e","b","u","g">>, "flag"), ScriptOption(<<"-","-","f","i","l","l","-","h","i","d","d","e","n">>, "flag"),
      ScriptOption(<<"-","-","u","r","l">>, "str") }

SafariOptions ==
    { ScriptOption(<<"-","-","h","e","a","d","l","e","s","s">>, "flag"), ScriptOption(<<"-","-","i","n","t","e","r","v","a","l">>, "int"),
      ScriptOption(<<"-","-","t","e","s","t">>, "flag"), ScriptOption(<<"-","-","u","r","l">>, "str") }

BrowserOptions ==
    { ScriptOption(<<"-","-","a","t","t","a","c","h">>, "flag"), ScriptOption(<<"-","-","i","n","t","e","r","v","a","l">>, "int"),
      ScriptOption(<<"-","-","f","i","r","e","f","o","x","-","p","a","t","h">>, "str"), ScriptOption(<<"-","-","d","e","b","u","g","-","p","o","r","t">>, "int"),
      ScriptOption(<<"-","-","t","e","s","t">>, "flag"), ScriptOption(<<"-","-","u","r","l">>, "str") }

\* The scripts in src/browsers that take a command line, each with its options.
Scripts ==
    (<<"s","r","c","/","b","r","o","w","s","e","r","s","/","c","h","r","o","m","e","_","a","u","t","o","_","f","i","l","l","e","r",".","p","y">> :> ChromeOptions)
        @@ (<<"s","r","c","/","b","r","o","w","s","e","r","s","/","s","a","f","a","r","i","_","a","u","t","o","_","f","i","l","l","e","r",".","p","y">> :> SafariOptions)
        @@ (<<"s","r","c","/","b","r","o","w","s","e","r","s","/","b","r","o","w","s","e","r","_","a","u","t","o","_","f","i","l","l","e","r",".","p","y">> :> BrowserOptions)

\* int(text) returns: an optional sign and digits.
IsInt(text) ==
    LET body == IF text # <<>> /\ text[1] \in {"-", "+"} THEN Tail(text) ELSE text
    IN  body # <<>> /\ IsDigits(body)

\* The type function of an option accepts the text.
Converts(kind, text) ==
    CASE kind = "int" -> IsInt(text)
      [] kind = "float" -> ParseFloat(text).ok
      [] OTHER -> TRUE

\* The options an argument stands for: the one of that name, else those the
\* argument abbreviates (argparse allows unambiguous prefixes).
Resolve(options, arg) ==
    IF \E o \in options : o.name = arg THEN {o \in options : o.name = arg}
    ELSE {o \in options : Len(arg) <= Len(o.name) /\ SubSeq(o.name, 1, Len(arg)) = arg}

RECURSIVE ScriptParses(_, _, _)
\* parse_args() of a script on the arguments from position i on returns a
\* namespace: every argument is a flag of the parser, or an option of it
\* followed by a value its type accepts. Anything else ends the script with a
\* usage error.
ScriptParses(options, args, i) ==
    IF i > Len(args) THEN TRUE
    ELSE IF ~IsOption(args[i]) \/ Cardinality(Resolve(options, args[i])) # 1 THEN FALSE
    ELSE LET o == CHOOSE x \in Resolve(options, args[i]) : TRUE
         IN  IF o.kind = "flag" THEN ScriptParses(options, args, i + 1)
             ELSE /\ i < Len(args)
                  /\ ~IsOption(args[i + 1])
                  /\ Converts(o.kind, args[i + 1])
                  /\ ScriptParses(options, args, i + 2)

\* subprocess.run(cmd): the interpreter finds no file of that name, the script
\* ends in its argument parser, or the script gets its arguments.
Launch(cmd) ==
    IF cmd[2] \notin DOMAIN Scripts THEN "no_script"
    ELSE IF ScriptParses(Scripts[cmd[2]], cmd, 3) THEN "started"
    ELSE "usage_error"

\* C29: for every browser choice and every combination of launcher flags, each
\* option of the command the launcher builds (--attach, --interval with the
\* string of a float, --debug, --fill-hidden) is an option that the parser of
\* the launched script defines and accepts with that value: the launched script
\* never rejects the launcher's command line.
C29_ScriptAcceptsCommand ==
    main_state = "returned"
    => \A i \in 1..Len(command) : Launch(command[i]) = "started"

\* ------------------------------------------------------ bulk save: claims

\* The row that the save of a list entry stores.
RowOfEntry(domain, form_id, e) ==
    MappingRow(domain, form_id, Get(e.field_name, None), Get(e.field_type, None),
               Get(e.user_field, None), Get(e.confidence, Num(<<"1",".","0">>)))

\* A bulk save of a list of objects: a save is attempted for every entry that
\* has both field_name and user_field, in list order, whatever the earlier
\* saves returned; the call returns True only if every attempted save did; the
\* row of the last save that succeeded is the newest stored row, and the row of
\* every save that succeeded is stored unless a later entry of the list
\* replaced it; with no save that succeeded the table is as before.
BulkStep ==
    (/\ reply'.op = "bulk_save_form_mappings"
     /\ \A i \in 1..Len(reply'.mappings.items) : reply'.mappings.items[i].kind = "dict")
    => LET items == reply'.mappings.items
           calls == reply'.calls
           want  == {i \in 1..Len(items) :
                       Bool(items[i].field_name) /\ Bool(items[i].user_field)}
           done  == {k \in 1..Len(calls) : calls[k].ok}
           row(k) == RowOfEntry(reply'.domain, reply'.form_id, items[calls[k].entry])
           stored(r) == \E j \in 1..Len(form_mappings') : form_mappings'[j] = r
       IN  /\ Len(calls) = Cardinality(want)
           /\ \A k \in 1..Len(calls) : calls[k].entry = Kth(want, k)
           /\ reply'.ret = (done = 1..Len(calls))
           /\ \A k \in done :
                \/ stored(row(k))
                \/ \E l \in done : l > k /\ Conflicts(row(k), row(l).domain, row(l).form_id,
                                                      row(l).field_name)
           /\ done # {} => form_mappings'[Len(form_mappings')] = row(Kth(done, Cardinality(done)))
           /\ done = {} => form_mappings' = form_mappings

====
